---- MODULE Spec2Model ----
(***************************************************************************)
(* Model of the EV charger proximity search (src/lib/searchCharger.ts):    *)
(* radius query on the geo index, parallel attribute lookups, merge,       *)
(* filter and sort; of the GET route that calls it (src/app/page.tsx); of  *)
(* the shared Redis client (getRedis); of the seed script that fills the   *)
(* store (src/unnamed/part_002); and of the two pages: the server-backed   *)
(* one (src/unnamed/part_000: debounced search effect, handleLocate, mount *)
(* effect) and the local one (src/unnamed/part_001: status simulation).    *)
(*                                                                         *)
(* JavaScript numbers are modelled as exact decimals with nine fractional  *)
(* digits, [nan, w, n] standing for w + n * 1e-9 (n in 0..Nano-1), so that *)
(* the 1e-9 tolerance of the price filter is one unit of n.  Strings that  *)
(* are searched (name, address, q) are sequences of characters; strings    *)
(* that are parsed (numbers, JSON) are TLA+ strings converted by tables.   *)
(***************************************************************************)
EXTENDS Integers, Sequences, FiniteSets, TLC

\* Largest number of members of the geo index in a modelled store.
MaxHits == 3

\* 1 / 1e-9: the number of tolerance units in one whole unit.
Nano == 1000000000

----------------------------------------------------------------------------
\* Optional values (undefined / present).
None == << >>
Some(x) == << x >>
IsSome(o) == Len(o) = 1
Val(o) == o[1]

----------------------------------------------------------------------------
\* Numbers.
NaN == [nan |-> TRUE, w |-> 0, n |-> 0]
Num(whole, nanos) == [nan |-> FALSE, w |-> whole, n |-> nanos]
IsNaN(x) == x.nan

\* a <= b and a >= b on JavaScript numbers: false when either side is NaN.
NumLe(a, b) == /\ ~a.nan
               /\ ~b.nan
               /\ (a.w < b.w \/ (a.w = b.w /\ a.n <= b.n))
NumGe(a, b) == NumLe(b, a)

\* a + b.
NumPlus(a, b) ==
  IF a.nan \/ b.nan THEN NaN
  ELSE IF a.n + b.n >= Nano THEN Num(a.w + b.w + 1, a.n + b.n - Nano)
       ELSE Num(a.w + b.w, a.n + b.n)

\* a - b (the fraction part stays in 0..Nano-1, the whole part carries the sign).
NumMinus(a, b) ==
  IF a.nan \/ b.nan THEN NaN
  ELSE IF a.n - b.n < 0 THEN Num(a.w - b.w - 1, a.n - b.n + Nano)
       ELSE Num(a.w - b.w, a.n - b.n)

NumNegative(x) == ~x.nan /\ x.w < 0
NumPositive(x) == ~x.nan /\ (x.w > 0 \/ (x.w = 0 /\ x.n > 0))

\* The numeric strings that occur in a modelled store, with their values.
NumberTable ==
  [s \in {"", "0", "10", "22", "60",
          "100", "150", "0.5", "0.500000001", "0.55",
          "1000", "2000", "1.304", "103.8318", "1.3521",
          "103.8198", "2.5", "9.8", "14.3", "20.1",
          "25.7", "2700000", "1.2931", "103.8572", "2880000",
          "250", "2280000", "1.3603", "103.9894", "0.45",
          "1560000", "1.3065", "103.7908", "120", "0.52",
          "2580000", "1.2644", "103.8223", "43", "0.48",
          "2460000", "1.2834", "103.8607", "50", "0.49",
          "1200000", "1.3483", "103.6831", "0.47", "300000",
          "1.3397", "103.6384", "90", "0.51", "2160000",
          "1.317", "103.8925", "0.44", "1920000", "1.3347",
          "103.742", "7.7692", "5.5139", "18.8807", "6.0102",
          "9.7585", "8.8923", "15.2063", "20.2180", "8.9773",
          "8.8649", "30", "200", "0.65"} |->
     CASE s = ""            -> Num(0, 0)
       [] s = "30"          -> Num(30, 0)
       [] s = "200"         -> Num(200, 0)
       [] s = "0.65"        -> Num(0, 650000000)
       [] s = "0"           -> Num(0, 0)
       [] s = "10"          -> Num(10, 0)
       [] s = "22"          -> Num(22, 0)
       [] s = "60"          -> Num(60, 0)
       [] s = "100"         -> Num(100, 0)
       [] s = "150"         -> Num(150, 0)
       [] s = "0.5"         -> Num(0, 500000000)
       [] s = "0.500000001" -> Num(0, 500000001)
       [] s = "0.55"        -> Num(0, 550000000)
       [] s = "1000"        -> Num(1000, 0)
       [] s = "2000"        -> Num(2000, 0)
       [] s = "1.304"       -> Num(1, 304000000)
       [] s = "103.8318"    -> Num(103, 831800000)
       [] s = "1.3521"      -> Num(1, 352100000)
       [] s = "103.8198"    -> Num(103, 819800000)
       [] s = "2.5"         -> Num(2, 500000000)
       [] s = "9.8"         -> Num(9, 800000000)
       [] s = "14.3"        -> Num(14, 300000000)
       [] s = "20.1"        -> Num(20, 100000000)
       [] s = "25.7"        -> Num(25, 700000000)
       [] s = "2700000"     -> Num(2700000, 0)
       [] s = "1.2931"      -> Num(1, 293100000)
       [] s = "103.8572"    -> Num(103, 857200000)
       [] s = "2880000"     -> Num(2880000, 0)
       [] s = "250"         -> Num(250, 0)
       [] s = "2280000"     -> Num(2280000, 0)
       [] s = "1.3603"      -> Num(1, 360300000)
       [] s = "103.9894"    -> Num(103, 989400000)
       [] s = "0.45"        -> Num(0, 450000000)
       [] s = "1560000"     -> Num(1560000, 0)
       [] s = "1.3065"      -> Num(1, 306500000)
       [] s = "103.7908"    -> Num(103, 790800000)
       [] s = "120"         -> Num(120, 0)
       [] s = "0.52"        -> Num(0, 520000000)
       [] s = "2580000"     -> Num(2580000, 0)
       [] s = "1.2644"      -> Num(1, 264400000)
       [] s = "103.8223"    -> Num(103, 822300000)
       [] s = "43"          -> Num(43, 0)
       [] s = "0.48"        -> Num(0, 480000000)
       [] s = "2460000"     -> Num(2460000, 0)
       [] s = "1.2834"      -> Num(1, 283400000)
       [] s = "103.8607"    -> Num(103, 860700000)
       [] s = "50"          -> Num(50, 0)
       [] s = "0.49"        -> Num(0, 490000000)
       [] s = "1200000"     -> Num(1200000, 0)
       [] s = "1.3483"      -> Num(1, 348300000)
       [] s = "103.6831"    -> Num(103, 683100000)
       [] s = "0.47"        -> Num(0, 470000000)
       [] s = "300000"      -> Num(300000, 0)
       [] s = "1.3397"      -> Num(1, 339700000)
       [] s = "103.6384"    -> Num(103, 638400000)
       [] s = "90"          -> Num(90, 0)
       [] s = "0.51"        -> Num(0, 510000000)
       [] s = "2160000"     -> Num(2160000, 0)
       [] s = "1.317"       -> Num(1, 317000000)
       [] s = "103.8925"    -> Num(103, 892500000)
       [] s = "0.44"        -> Num(0, 440000000)
       [] s = "1920000"     -> Num(1920000, 0)
       [] s = "1.3347"      -> Num(1, 334700000)
       [] s = "103.742"     -> Num(103, 742000000)
       [] s = "7.7692"      -> Num(7, 769200000)
       [] s = "5.5139"      -> Num(5, 513900000)
       [] s = "18.8807"     -> Num(18, 880700000)
       [] s = "6.0102"      -> Num(6, 10200000)
       [] s = "9.7585"      -> Num(9, 758500000)
       [] s = "8.8923"      -> Num(8, 892300000)
       [] s = "15.2063"     -> Num(15, 206300000)
       [] s = "20.2180"     -> Num(20, 218000000)
       [] s = "8.9773"      -> Num(8, 977300000)
       [] s = "8.8649"      -> Num(8, 864900000)]

\* Number(v) of an optional string: NaN for undefined and for a string that
\* is not a numeric literal, 0 for the empty string.
ToNumber(o) ==
  IF ~IsSome(o) THEN NaN
  ELSE IF Val(o) \in DOMAIN NumberTable THEN NumberTable[Val(o)]
       ELSE NaN

----------------------------------------------------------------------------
\* JSON.parse on the amenities strings of a modelled store: a list of tags,
\* or a SyntaxError.
JsonTable ==
  [s \in {"[]",
          "[\"Mall\"]",
          "[\"Mall\",\"ATM\"]",
          "[\"Mall\",\"Toilets\",\"Food Court\"]",
          "[\"Mall\",\"Food\",\"ATM\"]",
          "[\"Mall\",\"Playground\",\"Attractions\"]",
          "[\"Mall\",\"Cinema\"]",
          "[\"Mall\",\"Sentosa Link\"]",
          "[\"Hotel\",\"Mall\"]",
          "[\"Campus\",\"Cafe\"]",
          "[\"Restrooms\"]"} |->
     CASE s = "[]" ->
            << >>
       [] s = "[\"Mall\"]" ->
            << "Mall" >>
       [] s = "[\"Mall\",\"ATM\"]" ->
            << "Mall", "ATM" >>
       [] s = "[\"Mall\",\"Toilets\",\"Food Court\"]" ->
            << "Mall", "Toilets", "Food Court" >>
       [] s = "[\"Mall\",\"Food\",\"ATM\"]" ->
            << "Mall", "Food", "ATM" >>
       [] s = "[\"Mall\",\"Playground\",\"Attractions\"]" ->
            << "Mall", "Playground", "Attractions" >>
       [] s = "[\"Mall\",\"Cinema\"]" ->
            << "Mall", "Cinema" >>
       [] s = "[\"Mall\",\"Sentosa Link\"]" ->
            << "Mall", "Sentosa Link" >>
       [] s = "[\"Hotel\",\"Mall\"]" ->
            << "Hotel", "Mall" >>
       [] s = "[\"Campus\",\"Cafe\"]" ->
            << "Campus", "Cafe" >>
       [] s = "[\"Restrooms\"]" ->
            << "Restrooms" >>]

JsonParse(s) ==
  IF s \in DOMAIN JsonTable THEN [ok |-> TRUE, value |-> JsonTable[s]]
  ELSE [ok |-> FALSE, value |-> << >>]

----------------------------------------------------------------------------
\* Text: strings as sequences of characters.
LowerChar(c) ==
  CASE c = "A" -> "a"
    [] c = "B" -> "b"
    [] c = "C" -> "c"
    [] c = "D" -> "d"
    [] c = "E" -> "e"
    [] c = "F" -> "f"
    [] c = "G" -> "g"
    [] c = "H" -> "h"
    [] c = "I" -> "i"
    [] c = "J" -> "j"
    [] c = "K" -> "k"
    [] c = "L" -> "l"
    [] c = "M" -> "m"
    [] c = "N" -> "n"
    [] c = "O" -> "o"
    [] c = "P" -> "p"
    [] c = "Q" -> "q"
    [] c = "R" -> "r"
    [] c = "S" -> "s"
    [] c = "T" -> "t"
    [] c = "U" -> "u"
    [] c = "V" -> "v"
    [] c = "W" -> "w"
    [] c = "X" -> "x"
    [] c = "Y" -> "y"
    [] c = "Z" -> "z"
    [] OTHER   -> c

ToLowerCase(s) == [i \in 1..Len(s) |-> LowerChar(s[i])]

RECURSIVE TrimStart(_)
TrimStart(s) ==
  IF s # << >> /\ Head(s) = " " THEN TrimStart(Tail(s)) ELSE s

RECURSIVE TrimEnd(_)
TrimEnd(s) ==
  IF s # << >> /\ s[Len(s)] = " " THEN TrimEnd(SubSeq(s, 1, Len(s) - 1)) ELSE s

Trim(s) == TrimEnd(TrimStart(s))

Includes(s, sub) ==
  \E i \in 0..(Len(s) - Len(sub)) : SubSeq(s, i + 1, i + Len(sub)) = sub

----------------------------------------------------------------------------
\* The store.  A charger hash is a function from field names to strings; a
\* missing key reads as the empty hash.
EmptyHash == [f \in {} |-> ""]

Field(h, f) == IF f \in DOMAIN h THEN Some(h[f]) ELSE None

\* JavaScript truthiness of an optional string.
Truthy(o) == IsSome(o) /\ Val(o) # ""

HashOrchard ==
  [f \in {"name", "address", "powerKW", "pricePerKWh", "amenities",
          "updatedAt", "lat", "lng"} |->
     CASE f = "name"        -> << "O", "r" >>
       [] f = "address"     -> << "T", "n" >>
       [] f = "powerKW"     -> "150"
       [] f = "pricePerKWh" -> "0.55"
       [] f = "amenities"   -> "[\"Mall\",\"ATM\"]"
       [] f = "updatedAt"   -> "2000"
       [] f = "lat"         -> "1.304"
       [] f = "lng"         -> "103.8318"]

HashSuntec ==
  [f \in {"name", "address", "powerKW", "pricePerKWh", "amenities",
          "updatedAt", "lat", "lng"} |->
     CASE f = "name"        -> << "S", "t" >>
       [] f = "address"     -> << "T", "o", "r" >>
       [] f = "powerKW"     -> "60"
       [] f = "pricePerKWh" -> "0.500000001"
       [] f = "amenities"   -> "[\"Mall\"]"
       [] f = "updatedAt"   -> "1000"
       [] f = "lat"         -> "1.304"
       [] f = "lng"         -> "103.8318"]

\* Same power and price as HashOrchard; no name, no address, an empty
\* amenities and lat string and a non-numeric updatedAt.
HashBare ==
  [f \in {"powerKW", "pricePerKWh", "amenities", "updatedAt", "lat", "lng"} |->
     CASE f = "powerKW"     -> "150"
       [] f = "pricePerKWh" -> "0.55"
       [] f = "amenities"   -> ""
       [] f = "updatedAt"   -> "soon"
       [] f = "lat"         -> ""
       [] f = "lng"         -> "103.8318"]

\* An amenities field that is not JSON.
HashBadJson ==
  [f \in {"name", "address", "powerKW", "pricePerKWh", "amenities",
          "updatedAt"} |->
     CASE f = "name"        -> << "S", "t" >>
       [] f = "address"     -> << "T", "n" >>
       [] f = "powerKW"     -> "60"
       [] f = "pricePerKWh" -> "0.5"
       [] f = "amenities"   -> "Mall,ATM"
       [] f = "updatedAt"   -> "1000"]

HashCatalog == {HashOrchard, HashSuntec, HashBare, HashBadJson}

\* The members of the geo index, nearest to the query origin first, with the
\* distance (km) GEOSEARCH reports for each from that origin.
IdTable == << "sg-001", "sg-002", "sg-003", "sg-004", "sg-005" >>
DistTable == << "2.5", "9.8", "14.3", "20.1", "25.7" >>

Origin == [lat |-> Num(1, 352100000), lng |-> Num(103, 819800000)]

GeoMember(i) ==
  [member |-> IdTable[i],
   distance |-> DistTable[i],
   coordinates |-> [longitude |-> Num(103, 800000000 + i),
                    latitude |-> Num(1, 300000000 + i)]]

\* `charger:${id}`
Key(id) == << "charger", id >>

\* HGETALL: the stored hash, or the empty hash when the key does not exist.
HGetAll(store, key) == IF key \in DOMAIN store THEN store[key] ELSE EmptyHash

Take(s, k) == SubSeq(s, 1, IF k < Len(s) THEN k ELSE Len(s))

\* GeoSearchWith without the COUNT option.
GeoSearchWithUncapped(index, radius, limit, withDist, withCoord) ==
  LET rows == SelectSeq(index, LAMBDA m : NumLe(ToNumber(Some(m.distance)), radius))
  IN [i \in 1..Len(rows) |->
        [member |-> rows[i].member,
         distance |-> IF withDist THEN Some(rows[i].distance) ELSE None,
         coordinates |-> IF withCoord THEN Some(rows[i].coordinates) ELSE None]]

\* GEOSEARCH chargers:geo FROMLONLAT .. BYRADIUS radius km ASC COUNT limit
\* WITHDIST WITHCOORD: the members within the radius, nearest first, at most
\* limit of them.  withDist / withCoord: whether the client's reply rows carry
\* the distance and the coordinates (both are optional in the reply type).
GeoSearchWith(index, radius, limit, withDist, withCoord) ==
  LET inside == SelectSeq(index, LAMBDA m : NumLe(ToNumber(Some(m.distance)), radius))
      rows == Take(inside, limit.w)
  IN [i \in 1..Len(rows) |->
        [member |-> rows[i].member,
         distance |-> IF withDist THEN Some(rows[i].distance) ELSE None,
         coordinates |-> IF withCoord THEN Some(rows[i].coordinates) ELSE None]]

----------------------------------------------------------------------------
\* Options of a search: each optional one is None when the caller omits it.
DefaultRadiusKm == Num(30, 0)
\* DefaultLimit of twenty.
DefaultLimitTwenty == Num(20, 0)

DefaultLimit == Num(200, 0)
DefaultMinPower == Num(0, 0)
DefaultMaxPrice == Num(10, 0)
DefaultQ == << >>
DefaultSortBy == "distance"

OrElse(o, d) == IF IsSome(o) THEN Val(o) ELSE d

ApplyDefaults(o) ==
  [lat |-> o.lat,
   lng |-> o.lng,
   radiusKm |-> OrElse(o.radiusKm, DefaultRadiusKm),
   limit |-> OrElse(o.limit, DefaultLimit),
   minPower |-> OrElse(o.minPower, DefaultMinPower),
   maxPrice |-> OrElse(o.maxPrice, DefaultMaxPrice),
   q |-> OrElse(o.q, DefaultQ),
   sortBy |-> OrElse(o.sortBy, DefaultSortBy)]

----------------------------------------------------------------------------
\* Merge: one record per id, from the hash and the geo row at the same index.
AmenitiesText(h) ==
  IF Truthy(Field(h, "amenities")) THEN h["amenities"] ELSE "[]"

\* Coords with the index's echo preferred over the hash.
CoordsPreferGeo(h, g) ==
  IF IsSome(g.coordinates)
  THEN Some([lat |-> Val(g.coordinates).latitude,
             lng |-> Val(g.coordinates).longitude])
  ELSE IF Truthy(Field(h, "lat")) /\ Truthy(Field(h, "lng"))
       THEN Some([lat |-> ToNumber(Field(h, "lat")),
                  lng |-> ToNumber(Field(h, "lng"))])
       ELSE None

Coords(h, g) ==
  IF Truthy(Field(h, "lat")) /\ Truthy(Field(h, "lng"))
  THEN Some([lat |-> ToNumber(Field(h, "lat")), lng |-> ToNumber(Field(h, "lng"))])
  ELSE IF IsSome(g.coordinates)
       THEN Some([lat |-> Val(g.coordinates).latitude,
                  lng |-> Val(g.coordinates).longitude])
       ELSE None

DistanceKm(g) == IF Truthy(g.distance) THEN ToNumber(g.distance) ELSE NaN

MergeItem(id, h, g) ==
  [id |-> id,
   name |-> Field(h, "name"),
   address |-> Field(h, "address"),
   powerKW |-> ToNumber(Field(h, "powerKW")),
   pricePerKWh |-> ToNumber(Field(h, "pricePerKWh")),
   status |-> Field(h, "status"),
   amenities |-> JsonParse(AmenitiesText(h)).value,
   updatedAt |-> ToNumber(Field(h, "updatedAt")),
   coords |-> Coords(h, g),
   distanceKm |-> DistanceKm(g)]

\* JSON.parse throws inside the map callback.
MergeThrows(hs) == \E i \in 1..Len(hs) : ~JsonParse(AmenitiesText(hs[i])).ok

MergeItems(ids, hs, gs) ==
  [i \in 1..Len(ids) |-> MergeItem(ids[i], hs[i], gs[i])]

----------------------------------------------------------------------------
\* Filter.
Epsilon == Num(0, 1)

\* Query without the trim.
QueryUntrimmed(q) == ToLowerCase(q)

Query(q) == Trim(ToLowerCase(q))

MatchesQ(c, query) ==
  \/ query = << >>
  \/ IsSome(c.name) /\ Includes(ToLowerCase(Val(c.name)), query)
  \/ IsSome(c.address) /\ Includes(ToLowerCase(Val(c.address)), query)

\* MatchesPower with the minimum ignored.
MatchesPowerIgnored(c, minPower) == TRUE

MatchesPower(c, minPower) == NumGe(c.powerKW, minPower)

MatchesPrice(c, maxPrice) == NumLe(c.pricePerKWh, NumPlus(maxPrice, Epsilon))

\* Keep with the price test left out.
KeepWithoutPrice(c, o) ==
  /\ MatchesQ(c, Query(o.q))
  /\ MatchesPower(c, o.minPower)

Keep(c, o) ==
  /\ MatchesQ(c, Query(o.q))
  /\ MatchesPower(c, o.minPower)
  /\ MatchesPrice(c, o.maxPrice)

FilterItems(items, o) == SelectSeq(items, LAMBDA c : Keep(c, o))

----------------------------------------------------------------------------
\* Sort.

\* Compare with the last key tested unconditionally.
CompareFallsThrough(sortBy, a, b) ==
  CASE sortBy = "power"   -> NumMinus(b.powerKW, a.powerKW)
    [] sortBy = "price"   -> NumMinus(a.pricePerKWh, b.pricePerKWh)
    [] OTHER              -> NumMinus(b.updatedAt, a.updatedAt)

\* Compare is the comparator passed to items.sort.
Compare(sortBy, a, b) ==
  CASE sortBy = "power"   -> NumMinus(b.powerKW, a.powerKW)
    [] sortBy = "price"   -> NumMinus(a.pricePerKWh, b.pricePerKWh)
    [] sortBy = "updated" -> NumMinus(b.updatedAt, a.updatedAt)
    [] OTHER              -> Num(0, 0)

\* What the engine makes of the comparator's result: its sign, a NaN result
\* counting as 0.
Order(sortBy, a, b) ==
  LET v == Compare(sortBy, a, b)
  IN IF NumNegative(v) THEN -1 ELSE IF NumPositive(v) THEN 1 ELSE 0

Reverse(s) == [i \in 1..Len(s) |-> s[Len(s) + 1 - i]]

\* Array.prototype.sort as the Node.js runtime runs it on an array shorter
\* than 64 elements: the leading run is found (a strictly descending one is
\* reversed), then the rest is inserted by binary insertion.
RECURSIVE RunEnd(_, _, _, _)
RunEnd(s, sortBy, descending, idx) ==
  IF idx > Len(s) THEN Len(s)
  ELSE LET o == Order(sortBy, s[idx], s[idx - 1])
       IN IF (descending /\ o >= 0) \/ (~descending /\ o < 0)
          THEN idx - 1
          ELSE RunEnd(s, sortBy, descending, idx + 1)

\* The position (0-based) at which pivot is inserted into s[1..right].
RECURSIVE BinarySearch(_, _, _, _, _)
BinarySearch(s, sortBy, pivot, left, right) ==
  IF left < right
  THEN LET mid == left + ((right - left) \div 2)
       IN IF Order(sortBy, pivot, s[mid + 1]) < 0
          THEN BinarySearch(s, sortBy, pivot, left, mid)
          ELSE BinarySearch(s, sortBy, pivot, mid + 1, right)
  ELSE left

\* s[1..start-1] is sorted; insert s[start], s[start+1], ... in turn.
RECURSIVE BinaryInsertionSort(_, _, _)
BinaryInsertionSort(s, sortBy, start) ==
  IF start > Len(s) THEN s
  ELSE LET pivot == s[start]
           left == BinarySearch(s, sortBy, pivot, 0, start - 1)
           moved == SubSeq(s, 1, left) \o << pivot >>
                      \o SubSeq(s, left + 1, start - 1)
                      \o SubSeq(s, start + 1, Len(s))
       IN BinaryInsertionSort(moved, sortBy, start + 1)

ArraySort(s, sortBy) ==
  IF Len(s) < 2 THEN s
  ELSE LET descending == Order(sortBy, s[2], s[1]) < 0
           runLength == RunEnd(s, sortBy, descending, 3)
           run == IF descending
                  THEN Reverse(SubSeq(s, 1, runLength))
                         \o SubSeq(s, runLength + 1, Len(s))
                  ELSE s
       IN BinaryInsertionSort(run, sortBy, runLength + 1)

SortItems(items, sortBy) ==
  IF sortBy # "distance" THEN ArraySort(items, sortBy) ELSE items

----------------------------------------------------------------------------
\* The seed script.

\* Date.now() when the script is loaded, in milliseconds on the model's clock
\* (the real clock does not fit the integers of the model).
DateNow == Num(3000000, 0)

SEED ==
  <<
  [id |-> "sg-001",
   name |->
      << "S", "u", "n", "t", "e", "c", " ", "C", "i", "t", "y", " ", "C",
         "a", "r", "p", "a", "r", "k", " ", "B", "1" >>,
   coords |-> [lat |-> Num(1, 293100000), lng |-> Num(103, 857200000)],
   address |->
      << "3", " ", "T", "e", "m", "a", "s", "e", "k", " ", "B", "l", "v",
         "d", ",", " ", "S", "i", "n", "g", "a", "p", "o", "r", "e", " ",
         "0", "3", "8", "9", "8", "3" >>,
   powerKW |-> Num(60, 0),
   pricePerKWh |-> Num(0, 500000000),
   amenities |-> << "Mall", "Toilets", "Food Court" >>,
   updatedAt |-> NumMinus(DateNow, Num(1000 * 60 * 5, 0))],
  [id |-> "sg-002",
   name |->
      << "I", "O", "N", " ", "O", "r", "c", "h", "a", "r", "d", " ", "L",
         "5", " ", "E", "V", " ", "B", "a", "y", "s" >>,
   coords |-> [lat |-> Num(1, 304000000), lng |-> Num(103, 831800000)],
   address |->
      << "2", " ", "O", "r", "c", "h", "a", "r", "d", " ", "T", "u", "r",
         "n", ",", " ", "S", "i", "n", "g", "a", "p", "o", "r", "e", " ",
         "2", "3", "8", "8", "0", "1" >>,
   powerKW |-> Num(150, 0),
   pricePerKWh |-> Num(0, 550000000),
   amenities |-> << "Mall", "Food", "ATM" >>,
   updatedAt |-> NumMinus(DateNow, Num(1000 * 60 * 2, 0))],
  [id |-> "sg-003",
   name |->
      << "J", "e", "w", "e", "l", " ", "C", "h", "a", "n", "g", "i", " ",
         "B", "2", " ", "S", "u", "p", "e", "r", "c", "h", "a", "r", "g",
         "e", "r", "s" >>,
   coords |-> [lat |-> Num(1, 360300000), lng |-> Num(103, 989400000)],
   address |->
      << "7", "8", " ", "A", "i", "r", "p", "o", "r", "t", " ", "B", "l",
         "v", "d", ",", " ", "S", "i", "n", "g", "a", "p", "o", "r", "e",
         " ", "8", "1", "9", "6", "6", "6" >>,
   powerKW |-> Num(250, 0),
   pricePerKWh |-> Num(0, 550000000),
   amenities |-> << "Mall", "Playground", "Attractions" >>,
   updatedAt |-> NumMinus(DateNow, Num(1000 * 60 * 12, 0))],
  [id |-> "sg-004",
   name |->
      << "S", "t", "a", "r", " ", "V", "i", "s", "t", "a", " ", "B", "a",
         "s", "e", "m", "e", "n", "t", " ", "C", "h", "a", "r", "g", "e",
         "r", "s" >>,
   coords |-> [lat |-> Num(1, 306500000), lng |-> Num(103, 790800000)],
   address |->
      << "1", " ", "V", "i", "s", "t", "a", " ", "E", "x", "c", "h", "a",
         "n", "g", "e", " ", "G", "r", "e", "e", "n", ",", " ", "S", "i",
         "n", "g", "a", "p", "o", "r", "e", " ", "1", "3", "8", "6", "1",
         "7" >>,
   powerKW |-> Num(22, 0),
   pricePerKWh |-> Num(0, 450000000),
   amenities |-> << "Mall", "Cinema" >>,
   updatedAt |-> NumMinus(DateNow, Num(1000 * 60 * 24, 0))],
  [id |-> "sg-005",
   name |->
      << "V", "i", "v", "o", "c", "i", "t", "y", " ", "R", "o", "o", "f",
         "t", "o", "p", " ", "E", "V" >>,
   coords |-> [lat |-> Num(1, 264400000), lng |-> Num(103, 822300000)],
   address |->
      << "1", " ", "H", "a", "r", "b", "o", "u", "r", "F", "r", "o", "n",
         "t", " ", "W", "a", "l", "k", ",", " ", "S", "i", "n", "g", "a",
         "p", "o", "r", "e", " ", "0", "9", "8", "5", "8", "5" >>,
   powerKW |-> Num(120, 0),
   pricePerKWh |-> Num(0, 520000000),
   amenities |-> << "Mall", "Sentosa Link" >>,
   updatedAt |-> NumMinus(DateNow, Num(1000 * 60 * 7, 0))],
  [id |-> "sg-006",
   name |->
      << "M", "a", "r", "i", "n", "a", " ", "B", "a", "y", " ", "S", "a",
         "n", "d", "s", " ", "C", "a", "r", "p", "a", "r", "k" >>,
   coords |-> [lat |-> Num(1, 283400000), lng |-> Num(103, 860700000)],
   address |->
      << "1", "0", " ", "B", "a", "y", "f", "r", "o", "n", "t", " ", "A",
         "v", "e", ",", " ", "S", "i", "n", "g", "a", "p", "o", "r", "e",
         " ", "0", "1", "8", "9", "5", "6" >>,
   powerKW |-> Num(43, 0),
   pricePerKWh |-> Num(0, 480000000),
   amenities |-> << "Hotel", "Mall" >>,
   updatedAt |-> NumMinus(DateNow, Num(1000 * 60 * 9, 0))],
  [id |-> "sg-007",
   name |->
      << "N", "T", "U", " ", "N", "o", "r", "t", "h", " ", "H", "i", "l",
         "l", " ", "C", "h", "a", "r", "g", "e", "r", "s" >>,
   coords |-> [lat |-> Num(1, 348300000), lng |-> Num(103, 683100000)],
   address |->
      << "5", "0", " ", "N", "a", "n", "y", "a", "n", "g", " ", "A", "v",
         "e", ",", " ", "S", "i", "n", "g", "a", "p", "o", "r", "e", " ",
         "6", "3", "9", "7", "9", "8" >>,
   powerKW |-> Num(50, 0),
   pricePerKWh |-> Num(0, 490000000),
   amenities |-> << "Campus", "Cafe" >>,
   updatedAt |-> NumMinus(DateNow, Num(1000 * 60 * 30, 0))],
  [id |-> "sg-008",
   name |->
      << "T", "u", "a", "s", " ", "W", "e", "s", "t", " ", "R", "o", "a",
         "d", " ", "(", "P", "u", "b", "l", "i", "c", " ", "C", "a", "r",
         "p", "a", "r", "k", ")" >>,
   coords |-> [lat |-> Num(1, 339700000), lng |-> Num(103, 638400000)],
   address |->
      << "T", "u", "a", "s", " ", "W", "e", "s", "t", " ", "R", "d", ",",
         " ", "S", "i", "n", "g", "a", "p", "o", "r", "e" >>,
   powerKW |-> Num(60, 0),
   pricePerKWh |-> Num(0, 470000000),
   amenities |-> << "Restrooms" >>,
   updatedAt |-> NumMinus(DateNow, Num(1000 * 60 * 45, 0))],
  [id |-> "sg-009",
   name |->
      << "P", "a", "y", "a", " ", "L", "e", "b", "a", "r", " ", "Q", "u",
         "a", "r", "t", "e", "r", " ", "B", "3" >>,
   coords |-> [lat |-> Num(1, 317000000), lng |-> Num(103, 892500000)],
   address |->
      << "1", "0", " ", "P", "a", "y", "a", " ", "L", "e", "b", "a", "r",
         " ", "R", "d", ",", " ", "S", "i", "n", "g", "a", "p", "o", "r",
         "e", " ", "4", "0", "9", "0", "5", "7" >>,
   powerKW |-> Num(90, 0),
   pricePerKWh |-> Num(0, 510000000),
   amenities |-> << "Mall" >>,
   updatedAt |-> NumMinus(DateNow, Num(1000 * 60 * 14, 0))],
  [id |-> "sg-010",
   name |->
      << "W", "e", "s", "t", "g", "a", "t", "e", " ", "C", "a", "r", "p",
         "a", "r", "k" >>,
   coords |-> [lat |-> Num(1, 334700000), lng |-> Num(103, 742000000)],
   address |->
      << "3", " ", "G", "a", "t", "e", "w", "a", "y", " ", "D", "r", ",",
         " ", "S", "i", "n", "g", "a", "p", "o", "r", "e", " ", "6", "0",
         "8", "5", "3", "2" >>,
   powerKW |-> Num(22, 0),
   pricePerKWh |-> Num(0, 440000000),
   amenities |-> << "Mall" >>,
   updatedAt |-> NumMinus(DateNow, Num(1000 * 60 * 18, 0))]
  >>

\* String(n) for the numbers of SEED and of the page: the shortest decimal that
\* reads back as n.
NumberToString(x) ==
  CASE x = Num(60, 0)          -> "60"
    [] x = Num(0, 0)           -> "0"
    [] x = Num(100, 0)         -> "100"
    [] x = Num(0, 650000000)   -> "0.65"
    [] x = Num(1, 352100000)   -> "1.3521"
    [] x = Num(103, 819800000) -> "103.8198"
    [] x = Num(1, 304000000)   -> "1.304"
    [] x = Num(103, 831800000) -> "103.8318"
    [] x = Num(0, 500000000)   -> "0.5"
    [] x = Num(2700000, 0)     -> "2700000"
    [] x = Num(1, 293100000)   -> "1.2931"
    [] x = Num(103, 857200000) -> "103.8572"
    [] x = Num(150, 0)         -> "150"
    [] x = Num(0, 550000000)   -> "0.55"
    [] x = Num(2880000, 0)     -> "2880000"
    [] x = Num(1, 304000000)   -> "1.304"
    [] x = Num(103, 831800000) -> "103.8318"
    [] x = Num(250, 0)         -> "250"
    [] x = Num(2280000, 0)     -> "2280000"
    [] x = Num(1, 360300000)   -> "1.3603"
    [] x = Num(103, 989400000) -> "103.9894"
    [] x = Num(22, 0)          -> "22"
    [] x = Num(0, 450000000)   -> "0.45"
    [] x = Num(1560000, 0)     -> "1560000"
    [] x = Num(1, 306500000)   -> "1.3065"
    [] x = Num(103, 790800000) -> "103.7908"
    [] x = Num(120, 0)         -> "120"
    [] x = Num(0, 520000000)   -> "0.52"
    [] x = Num(2580000, 0)     -> "2580000"
    [] x = Num(1, 264400000)   -> "1.2644"
    [] x = Num(103, 822300000) -> "103.8223"
    [] x = Num(43, 0)          -> "43"
    [] x = Num(0, 480000000)   -> "0.48"
    [] x = Num(2460000, 0)     -> "2460000"
    [] x = Num(1, 283400000)   -> "1.2834"
    [] x = Num(103, 860700000) -> "103.8607"
    [] x = Num(50, 0)          -> "50"
    [] x = Num(0, 490000000)   -> "0.49"
    [] x = Num(1200000, 0)     -> "1200000"
    [] x = Num(1, 348300000)   -> "1.3483"
    [] x = Num(103, 683100000) -> "103.6831"
    [] x = Num(0, 470000000)   -> "0.47"
    [] x = Num(300000, 0)      -> "300000"
    [] x = Num(1, 339700000)   -> "1.3397"
    [] x = Num(103, 638400000) -> "103.6384"
    [] x = Num(90, 0)          -> "90"
    [] x = Num(0, 510000000)   -> "0.51"
    [] x = Num(2160000, 0)     -> "2160000"
    [] x = Num(1, 317000000)   -> "1.317"
    [] x = Num(103, 892500000) -> "103.8925"
    [] x = Num(0, 440000000)   -> "0.44"
    [] x = Num(1920000, 0)     -> "1920000"
    [] x = Num(1, 334700000)   -> "1.3347"
    [] x = Num(103, 742000000) -> "103.742"

\* JSON.stringify of a list of tags.
JsonStringify(tags) ==
  CASE tags = << >> -> "[]"
    [] tags = << "Mall", "Toilets", "Food Court" >> ->
         "[\"Mall\",\"Toilets\",\"Food Court\"]"
    [] tags = << "Mall", "Food", "ATM" >> ->
         "[\"Mall\",\"Food\",\"ATM\"]"
    [] tags = << "Mall", "Playground", "Attractions" >> ->
         "[\"Mall\",\"Playground\",\"Attractions\"]"
    [] tags = << "Mall", "Cinema" >> ->
         "[\"Mall\",\"Cinema\"]"
    [] tags = << "Mall", "Sentosa Link" >> ->
         "[\"Mall\",\"Sentosa Link\"]"
    [] tags = << "Hotel", "Mall" >> ->
         "[\"Hotel\",\"Mall\"]"
    [] tags = << "Campus", "Cafe" >> ->
         "[\"Campus\",\"Cafe\"]"
    [] tags = << "Restrooms" >> ->
         "[\"Restrooms\"]"
    [] tags = << "Mall" >> ->
         "[\"Mall\"]"

\* SeedHash without the lat and lng fields.
SeedHashWithoutPosition(c) ==
  [f \in {"id", "name", "address", "powerKW", "pricePerKWh", "amenities",
          "updatedAt"} |->
     CASE f = "id"          -> c.id
       [] f = "name"        -> c.name
       [] f = "address"     -> c.address
       [] f = "powerKW"     -> NumberToString(c.powerKW)
       [] f = "pricePerKWh" -> NumberToString(c.pricePerKWh)
       [] f = "amenities"   -> JsonStringify(c.amenities)
       [] f = "updatedAt"   -> NumberToString(c.updatedAt)]

\* The fields the script writes for a row of SEED.
SeedHash(c) ==
  [f \in {"id", "name", "address", "powerKW", "pricePerKWh", "amenities",
          "updatedAt", "lat", "lng"} |->
     CASE f = "id"          -> c.id
       [] f = "name"        -> c.name
       [] f = "address"     -> c.address
       [] f = "powerKW"     -> NumberToString(c.powerKW)
       [] f = "pricePerKWh" -> NumberToString(c.pricePerKWh)
       [] f = "amenities"   -> JsonStringify(c.amenities)
       [] f = "updatedAt"   -> NumberToString(c.updatedAt)
       [] f = "lat"         -> NumberToString(c.coords.lat)
       [] f = "lng"         -> NumberToString(c.coords.lng)]

\* HSET key field value ...: the given fields are set, the others are kept.
HSet(store, key, fields) ==
  [k \in DOMAIN store \cup {key} |->
     IF k = key
     THEN [f \in DOMAIN HGetAll(store, key) \cup DOMAIN fields |->
             IF f \in DOMAIN fields THEN fields[f] ELSE store[key][f]]
     ELSE store[k]]

\* The distance (km) GEOSEARCH reports from Origin to each row's position, by
\* the haversine formula on the index's sphere.
SeedDistTable ==
  << "7.7692", "5.5139", "18.8807", "6.0102", "9.7585",
     "8.8923", "15.2063", "20.2180", "8.9773", "8.8649" >>

SeedRowOf(id) == CHOOSE r \in 1..Len(SEED) : SEED[r].id = id

\* The position the index echoes for a member: the centre of its geohash
\* cell, close to the position added and not equal to it.
GeoEcho(longitude, latitude) ==
  [longitude |-> NumPlus(longitude, Num(0, 1)),
   latitude |-> NumPlus(latitude, Num(0, 1))]

\* GEOADD chargers:geo longitude latitude member: the member is added, or
\* moved when it is there already; the index stays ordered by distance.
GeoAdd(index, longitude, latitude, member) ==
  LET m == [member |-> member,
            distance |-> SeedDistTable[SeedRowOf(member)],
            coordinates |-> GeoEcho(longitude, latitude)]
      d(x) == ToNumber(Some(x.distance))
      others == SelectSeq(index, LAMBDA x : x.member # member)
      nearer == SelectSeq(others, LAMBDA x : NumLe(d(x), d(m)))
      farther == SelectSeq(others, LAMBDA x : ~NumLe(d(x), d(m)))
  IN nearer \o << m >> \o farther


----------------------------------------------------------------------------
\* The state.
VARIABLES
  geoIndex,    \* the geo index chargers:geo, nearest member first
  hashStore,   \* the charger hashes, by key
  pc,          \* where the current searchChargers call is
  opts,        \* its options, defaults applied
  geo,         \* the reply of the radius query
  hashes,      \* the result slots of Promise.all, one optional hash per id
  pending,     \* the indexes of the lookups not yet settled
  overtook,    \* whether a lookup settled before one of a lower index
  items,       \* the merged records, before filtering
  storeCalls,  \* the commands the current call sent to the store, in order
  thrown,      \* the store call that was rejected and its error, if any
  outcome,     \* what the call returned or threw
  caller,      \* who made the current call: "searchChargers" or "GET"
  previous,    \* what the call before the current one returned, if any
  client,      \* the module-level Redis client of the server process
  created,     \* how many times createClient has run
  connects,    \* how many times connect has been invoked
  returned,    \* the handles getRedis has returned
  seedRun,     \* where the seed script is: its row of SEED and its write
  chargers,    \* the page's list of chargers
  loading,     \* the page's loading flag
  query,       \* the text of the search box
  minPower,    \* the value of the minimum-power slider, minPower[0]
  maxPrice,    \* the value of the maximum-price slider, maxPrice[0]
  onlyAvailable, \* the availability switch
  sortBy,      \* the selected order
  userLoc,     \* the user's location
  center,      \* the centre of the map
  timers,      \* the timeouts of the search effect that have not fired
  t,           \* the timeout the last run of the search effect created
  requests,    \* the search requests issued, each with its parameters and stage
  now,         \* the page's clock, in milliseconds
  changedAt,   \* the clock when a dependency of the search effect last changed
  changes,     \* how many times the user has changed a dependency
  locate,      \* the current handleLocate invocation
  toasts,      \* the toasts shown, in order
  storage,     \* localStorage
  search,      \* the parameters of location.search
  mounted,     \* whether the mount effect has run
  busyTick     \* the counter of the status simulation

searchVars == << pc, opts, geo, hashes, pending, overtook, items, storeCalls,
                 thrown, outcome, caller >>

storeVars == << geoIndex, hashStore >>

clientVars == << client, created, connects, returned >>

pageVars == << chargers, loading, query, minPower, maxPrice, onlyAvailable,
               sortBy, userLoc, center, timers, t, requests, now, changedAt,
               changes, locate, toasts, storage, search, mounted, busyTick >>

serverVars == << storeVars, searchVars, previous, clientVars, seedRun >>

vars == << serverVars, pageVars >>

\* The page component as constructed (useState initial values), with nothing
\* mounted, scheduled or requested.
DefaultLoc == [lat |-> Num(1, 352100000), lng |-> Num(103, 819800000)]

DefaultUiMinPower == Num(22, 0)

DefaultUiMaxPrice == Num(0, 650000000)

\* No handleLocate invocation yet: its number, its position, its attempts
\* counter, how long its retry timeout has run, the code of its last error,
\* and the location and centre it started from.
LocateIdle ==
  [run |-> 0, pc |-> "idle", attempts |-> 0, waited |-> 0, code |-> 0,
   before |-> [userLoc |-> DefaultLoc, center |-> DefaultLoc]]

NoSearch ==
  [q |-> None, minPower |-> None, maxPrice |-> None, onlyAvailable |-> None,
   sortBy |-> None, lat |-> None, lng |-> None]

InitComponent ==
  /\ chargers = << >>
  /\ loading = FALSE
  /\ query = << >>
  /\ minPower = DefaultUiMinPower
  /\ maxPrice = DefaultUiMaxPrice
  /\ onlyAvailable = FALSE
  /\ sortBy = "distance"
  /\ userLoc = DefaultLoc
  /\ center = DefaultLoc
  /\ timers = {}
  /\ t = None
  /\ requests = << >>
  /\ now = 0
  /\ changedAt = 0
  /\ changes = 0
  /\ locate = LocateIdle
  /\ toasts = << >>
  /\ storage = None
  /\ search = NoSearch
  /\ mounted = FALSE
  /\ busyTick = 0

StoreErrors == {"ECONNREFUSED", "ETIMEDOUT"}

NoOutcome == [kind |-> "none", items |-> << >>, error |-> ""]
Returned(list) == [kind |-> "ok", items |-> list, error |-> ""]
Threw(e) == [kind |-> "error", items |-> << >>, error |-> e]

\* The options a caller passes: every combination of the filters with the
\* default order; every sort key with the default filters and with all three
\* filters set; the default filters with a radius or a limit that cuts the
\* index; a text of one space.
Inputs ==
  [lat : {Origin.lat},
   lng : {Origin.lng},
   radiusKm : {None},
   limit : {None},
   minPower : {None, Some(Num(100, 0))},
   maxPrice : {None, Some(Num(0, 500000000))},
   q : {None, Some(<< " ", "O", "R" >>)},
   sortBy : {None, Some("distance")}]
  \cup
  [lat : {Origin.lat},
   lng : {Origin.lng},
   radiusKm : {None},
   limit : {None},
   minPower : {None},
   maxPrice : {None},
   q : {None},
   sortBy : {Some("power"), Some("price"), Some("updated"), Some("name")}]
  \cup
  [lat : {Origin.lat},
   lng : {Origin.lng},
   radiusKm : {None},
   limit : {None},
   minPower : {Some(Num(100, 0))},
   maxPrice : {Some(Num(0, 500000000))},
   q : {Some(<< " ", "O", "R" >>)},
   sortBy : {Some("power"), Some("price"), Some("updated"), Some("name")}]
  \cup
  [lat : {Origin.lat},
   lng : {Origin.lng},
   radiusKm : {None, Some(Num(10, 0))},
   limit : {None, Some(Num(2, 0))},
   minPower : {None},
   maxPrice : {None},
   q : {None},
   sortBy : {None}]
  \cup
  [lat : {Origin.lat},
   lng : {Origin.lng},
   radiusKm : {None},
   limit : {None},
   minPower : {None},
   maxPrice : {None},
   q : {Some(<< " " >>)},
   sortBy : {None}]

\* No call made yet, no client created.
InitCall ==
  /\ pc = "idle"
  /\ opts = ApplyDefaults([lat |-> Origin.lat, lng |-> Origin.lng,
                           radiusKm |-> None, limit |-> None,
                           minPower |-> None, maxPrice |-> None,
                           q |-> None, sortBy |-> None])
  /\ geo = << >>
  /\ hashes = << >>
  /\ pending = {}
  /\ overtook = FALSE
  /\ items = << >>
  /\ storeCalls = << >>
  /\ thrown = None
  /\ outcome = NoOutcome
  /\ caller = "none"
  /\ previous = None
  /\ client = None
  /\ created = 0
  /\ connects = 0
  /\ returned = {}

\* The seed script is not running.
SeedOff == [pc |-> "off", row |-> 0, step |-> 0]

Init ==
  /\ seedRun = SeedOff
  /\ \E n \in 0..MaxHits :
       /\ geoIndex = [i \in 1..n |-> GeoMember(i)]
       /\ \E present \in SUBSET (1..n) :
            hashStore \in [{Key(IdTable[i]) : i \in present} -> HashCatalog]
  /\ InitCall
  /\ InitComponent

\* GetRedis without the test for an existing client.
GetRedisAlwaysCreates ==
  /\ client' = Some(created + 1)
  /\ created' = created + 1
  /\ connects' = connects + 1
  /\ returned' = returned \cup {created + 1}

\* getRedis: the client is created and connect is invoked on the first call
\* only; the call runs to completion before any other code of the process.
\* A handle is named by the ordinal of the createClient call that made it.
GetRedis ==
  IF client = None
  THEN /\ client' = Some(created + 1)
       /\ created' = created + 1
       /\ connects' = connects + 1
       /\ returned' = returned \cup {created + 1}
  ELSE /\ returned' = returned \cup {Val(client)}
       /\ UNCHANGED << client, created, connects >>

\* A call of searchChargers begins: the client is obtained and the radius
\* query is sent; every local of the call is fresh.
Start(who) ==
  /\ GetRedis
  /\ storeCalls' = << << "GEOSEARCH", "chargers:geo" >> >>
  /\ pc' = "geo"
  /\ caller' = who
  /\ geo' = << >>
  /\ hashes' = << >>
  /\ pending' = {}
  /\ overtook' = FALSE
  /\ items' = << >>
  /\ thrown' = None
  /\ outcome' = NoOutcome
  /\ UNCHANGED << storeVars, seedRun,
                  pageVars >>

\* searchChargers(o): the options are read with their defaults.
Invoke(o, who) ==
  /\ opts' = ApplyDefaults(o)
  /\ Start(who)

\* searchChargers is called directly.
SearchChargers(o) ==
  /\ pc = "idle"
  /\ Invoke(o, "searchChargers")
  /\ UNCHANGED previous

\* A request parameter as a number: Number(searchParams.get(name) ?? default).
Param(p, name, default) ==
  IF IsSome(p[name]) THEN ToNumber(p[name]) ELSE default

\* The options the GET handler passes to searchChargers.
GetOpts(p) ==
  [lat |-> Param(p, "lat", Num(1, 352100000)),
   lng |-> Param(p, "lng", Num(103, 819800000)),
   radiusKm |-> Some(Param(p, "radiusKm", Num(30, 0))),
   limit |-> Some(Param(p, "limit", Num(200, 0))),
   minPower |-> Some(Param(p, "minPower", Num(0, 0))),
   maxPrice |-> Some(Param(p, "maxPrice", Num(10, 0))),
   q |-> Some(OrElse(p.q, << >>)),
   sortBy |-> Some(OrElse(p.sortBy, "distance"))]

\* The requests of the model: without parameters; with a minimum power and a
\* sort key; with an origin, a radius and a text.
NoParams ==
  [lat |-> None, lng |-> None, radiusKm |-> None, limit |-> None,
   minPower |-> None, maxPrice |-> None, q |-> None, sortBy |-> None]

Requests ==
  {NoParams,
   [NoParams EXCEPT !.minPower = Some("100"), !.sortBy = Some("power")],
   [NoParams EXCEPT !.lat = Some("1.3521"), !.lng = Some("103.8198"),
                    !.radiusKm = Some("10"), !.q = Some(<< "o", "r" >>)]}

\* GET /api/chargers/search: the parameters are read and searchChargers is
\* called with them.
Get(p) ==
  /\ pc = "idle"
  /\ Invoke(GetOpts(p), "GET")
  /\ UNCHANGED previous

\* GeoSearchFails with the error caught and an empty list returned.
GeoSearchFailsSwallowed(e) ==
  /\ pc = "geo"
  /\ thrown' = Some([call |-> "GEOSEARCH", error |-> e])
  /\ outcome' = Returned(<< >>)
  /\ pc' = "done"
  /\ UNCHANGED << geoIndex, hashStore, opts, geo, hashes, pending, overtook,
                  items, storeCalls,
                  caller, previous, clientVars, seedRun,
                  pageVars >>

\* GeoSearchFails with the query sent again instead of the error thrown.
GeoSearchFailsRetried(e) ==
  /\ pc = "geo"
  /\ thrown' = Some([call |-> "GEOSEARCH", error |-> e])
  /\ storeCalls' = Append(storeCalls, << "GEOSEARCH", "chargers:geo" >>)
  /\ UNCHANGED << geoIndex, hashStore, pc, opts, geo, hashes, pending,
                  overtook, items, outcome,
                  caller, previous, clientVars, seedRun,
                  pageVars >>

\* The radius query is rejected: the await throws out of searchChargers.
GeoSearchFails(e) ==
  /\ pc = "geo"
  /\ thrown' = Some([call |-> "GEOSEARCH", error |-> e])
  /\ outcome' = Threw(e)
  /\ pc' = "failed"
  /\ UNCHANGED << geoIndex, hashStore, opts, geo, hashes, pending, overtook,
                  items, storeCalls,
                  caller, previous, clientVars, seedRun,
                  pageVars >>

\* The store answers the same radius query with the same reply as long as it
\* is not modified: a second run of a call gets the rows the first run got.
SameReply(reply) ==
  IF previous = None THEN TRUE
  ELSE IF Val(previous).reply = None THEN TRUE
  ELSE Val(Val(previous).reply) = reply

\* The radius query returns: one HGETALL per returned id is sent, all before
\* any is awaited.
GeoSearchReturns(withDist, withCoord) ==
  /\ pc = "geo"
  /\ LET reply == GeoSearchWith(geoIndex, opts.radiusKm, opts.limit,
                                withDist, withCoord)
     IN /\ geo' = reply
        /\ hashes' = [i \in 1..Len(reply) |-> None]
        /\ pending' = 1..Len(reply)
        /\ SameReply(reply)
        /\ storeCalls' = storeCalls \o
             [i \in 1..Len(reply) |-> << "HGETALL", Key(reply[i].member) >>]
  /\ pc' = "fetch"
  /\ UNCHANGED << geoIndex, hashStore, opts, overtook, items, thrown, outcome,
                  caller, previous, clientVars, seedRun,
                  pageVars >>

\* SettleAt with the value kept in the first free slot, in completion order.
SettleAtNextFree(slots, i, h) ==
  LET free == CHOOSE k \in 1..Len(slots) :
                /\ ~IsSome(slots[k])
                /\ \A m \in 1..(k - 1) : IsSome(slots[m])
  IN [slots EXCEPT ![free] = Some(h)]

\* The lookup of the i-th id resolves: Promise.all keeps its value at index i.
SettleAt(slots, i, h) == [slots EXCEPT ![i] = Some(h)]

\* HGetAllReturns with the key removed by the lookup, as GETDEL would.
HGetAllReturnsDeleting(i) ==
  /\ pc = "fetch"
  /\ i \in pending
  /\ hashes' = SettleAt(hashes, i, HGetAll(hashStore, Key(geo[i].member)))
  /\ hashStore' = [k \in DOMAIN hashStore \ {Key(geo[i].member)} |-> hashStore[k]]
  /\ pending' = pending \ {i}
  /\ overtook' = (overtook \/ \E j \in pending : j < i)
  /\ UNCHANGED << geoIndex, pc, opts, geo, items, storeCalls,
                  thrown, outcome,
                  caller, previous, clientVars, seedRun,
                  pageVars >>

HGetAllReturns(i) ==
  /\ pc = "fetch"
  /\ i \in pending
  /\ hashes' = SettleAt(hashes, i, HGetAll(hashStore, Key(geo[i].member)))
  /\ pending' = pending \ {i}
  /\ overtook' = (overtook \/ \E j \in pending : j < i)
  /\ UNCHANGED << geoIndex, hashStore, pc, opts, geo, items, storeCalls,
                  thrown, outcome,
                  caller, previous, clientVars, seedRun,
                  pageVars >>

\* The lookup of the i-th id is rejected: Promise.all rejects with its error
\* and the await throws out of searchChargers, so hashes is never bound; the
\* lookups still in flight are no longer observed.
HGetAllFails(i, e) ==
  /\ pc = "fetch"
  /\ i \in pending
  /\ thrown' = Some([call |-> "HGETALL", error |-> e])
  /\ outcome' = Threw(e)
  /\ hashes' = << >>
  /\ pending' = {}
  /\ overtook' = FALSE
  /\ pc' = "failed"
  /\ UNCHANGED << geoIndex, hashStore, opts, geo, items, storeCalls,
                  caller, previous, clientVars, seedRun,
                  pageVars >>

\* Every lookup has resolved: merge, filter, sort, return.  JSON.parse throws
\* out of the merge and so out of searchChargers.
Pipeline(merged, o) == SortItems(FilterItems(merged, o), o.sortBy)

\* Assemble without waiting for the lookups still pending.
AssembleEarly ==
  /\ pc = "fetch"
  /\ LET ids == [i \in 1..Len(geo) |-> geo[i].member]
         hs == [i \in 1..Len(hashes) |->
                  IF IsSome(hashes[i]) THEN Val(hashes[i]) ELSE EmptyHash]
     IN IF MergeThrows(hs)
        THEN /\ items' = << >>
             /\ outcome' = Threw("SyntaxError")
             /\ pc' = "failed"
        ELSE /\ items' = MergeItems(ids, hs, geo)
             /\ outcome' = Returned(Pipeline(MergeItems(ids, hs, geo), opts))
             /\ pc' = "done"
  /\ UNCHANGED << geoIndex, hashStore, opts, geo, hashes, pending, overtook,
                  storeCalls, thrown,
                  caller, previous, clientVars, seedRun,
                  pageVars >>

Assemble ==
  /\ pc = "fetch"
  /\ pending = {}
  /\ LET ids == [i \in 1..Len(geo) |-> geo[i].member]
         hs == [i \in 1..Len(hashes) |-> Val(hashes[i])]
     IN IF MergeThrows(hs)
        THEN /\ items' = << >>
             /\ outcome' = Threw("SyntaxError")
             /\ pc' = "failed"
        ELSE /\ items' = MergeItems(ids, hs, geo)
             /\ outcome' = Returned(Pipeline(MergeItems(ids, hs, geo), opts))
             /\ pc' = "done"
  /\ UNCHANGED << geoIndex, hashStore, opts, geo, hashes, pending, overtook,
                  storeCalls, thrown,
                  caller, previous, clientVars, seedRun,
                  pageVars >>

\* The caller runs the same call again once it has returned or thrown; what
\* the first run returned and how its lookups completed is remembered.
Again ==
  /\ pc \in {"done", "failed"}
  /\ previous = None
  /\ previous' = Some([outcome |-> outcome,
                       reply |-> IF pc = "failed" /\ storeCalls = << << "GEOSEARCH", "chargers:geo" >> >>
                                 THEN None ELSE Some(geo),
                       overtook |-> overtook])
  /\ UNCHANGED opts
  /\ Start(caller)

\* Another invocation in the same server process obtains the client; it
\* touches nothing of this call.
OtherGetRedis ==
  /\ GetRedis
  /\ UNCHANGED << storeVars, searchVars, previous, seedRun,
                  pageVars >>

\* SeedSteps with the member added to the index before its hash is written.
SeedStepsGeoFirst == << "geoAdd", "hSet" >>

\* The writes of one pass of the loop of main, in program order; each is
\* awaited before the next is sent.
SeedSteps == << "hSet", "geoAdd" >>

\* The script moves on: to the next write of the row, to the next row, or to
\* process.exit(0) after the last row.
SeedAdvance(run) ==
  IF run.step < Len(SeedSteps) THEN [run EXCEPT !.step = @ + 1]
  ELSE IF run.row < Len(SEED) THEN [run EXCEPT !.row = @ + 1, !.step = 1]
  ELSE [run EXCEPT !.pc = "exited"]

\* await redis.hSet(`charger:${id}`, {...})
SeedHSet ==
  /\ seedRun.pc = "run"
  /\ SeedSteps[seedRun.step] = "hSet"
  /\ LET c == SEED[seedRun.row]
     IN hashStore' = HSet(hashStore, Key(c.id), SeedHash(c))
  /\ seedRun' = SeedAdvance(seedRun)
  /\ UNCHANGED << geoIndex, searchVars, previous, clientVars,
                  pageVars >>

\* await redis.geoAdd("chargers:geo", {longitude, latitude, member: id})
SeedGeoAdd ==
  /\ seedRun.pc = "run"
  /\ SeedSteps[seedRun.step] = "geoAdd"
  /\ LET c == SEED[seedRun.row]
     IN geoIndex' = GeoAdd(geoIndex, c.coords.lng, c.coords.lat, c.id)
  /\ seedRun' = SeedAdvance(seedRun)
  /\ UNCHANGED << hashStore, searchVars, previous, clientVars,
                  pageVars >>

\* The write the script awaits is rejected: main rejects and the catch
\* handler ends the process, the rows written so far staying in the store.
SeedFails ==
  /\ seedRun.pc = "run"
  /\ seedRun' = [seedRun EXCEPT !.pc = "failed"]
  /\ UNCHANGED << storeVars, searchVars, previous, clientVars,
                  pageVars >>

Next ==
  \/ \E o \in Inputs : SearchChargers(o)
  \/ \E p \in Requests : Get(p)
  \/ \E e \in StoreErrors : GeoSearchFails(e)
  \/ \E withDist \in BOOLEAN, withCoord \in BOOLEAN :
       GeoSearchReturns(withDist, withCoord)
  \/ \E i \in 1..MaxHits : HGetAllReturns(i)
  \/ \E i \in 1..MaxHits, e \in StoreErrors : HGetAllFails(i, e)
  \/ Assemble

Spec == Init /\ [][Next]_vars

\* The options of the calls that are run twice.
ProcessInputs ==
  [lat : {Origin.lat},
   lng : {Origin.lng},
   radiusKm : {None},
   limit : {Some(Num(2, 0))},
   minPower : {None},
   maxPrice : {None},
   q : {None},
   sortBy : {None, Some("updated")}]

\* One server process: calls of searchChargers one after the other, with
\* getRedis calls of other invocations in between.
NextProcess ==
  \/ \E o \in ProcessInputs : SearchChargers(o)
  \/ \E p \in Requests : Get(p)
  \/ \E e \in StoreErrors : GeoSearchFails(e)
  \/ \E withDist \in BOOLEAN, withCoord \in BOOLEAN :
       GeoSearchReturns(withDist, withCoord)
  \/ \E i \in 1..MaxHits : HGetAllReturns(i)
  \/ \E i \in 1..MaxHits, e \in StoreErrors : HGetAllFails(i, e)
  \/ Assemble
  \/ Again
  \/ OtherGetRedis

SpecProcess == Init /\ [][NextProcess]_vars

\* The seed script runs against an empty store while the server answers a
\* search.
InitSeed ==
  /\ geoIndex = << >>
  /\ hashStore = << >>
  /\ seedRun = [pc |-> "run", row |-> 1, step |-> 1]
  /\ InitCall
  /\ InitComponent

\* The options of the searches made while the script runs and after it.
SeedInputs ==
  [lat : {Origin.lat},
   lng : {Origin.lng},
   radiusKm : {None},
   limit : {None},
   minPower : {Some(Num(100, 0))},
   maxPrice : {None},
   q : {None},
   sortBy : {None, Some("power"), Some("price"), Some("updated")}]
  \cup
  [lat : {Origin.lat},
   lng : {Origin.lng},
   radiusKm : {None},
   limit : {None, Some(Num(2, 0))},
   minPower : {None},
   maxPrice : {None},
   q : {None},
   sortBy : {None}]

NextSeed ==
  \/ SeedHSet
  \/ SeedGeoAdd
  \/ SeedFails
  \/ \E o \in SeedInputs : SearchChargers(o)
  \/ \E e \in StoreErrors : GeoSearchFails(e)
  \/ \E withDist \in BOOLEAN, withCoord \in BOOLEAN :
       GeoSearchReturns(withDist, withCoord)
  \/ \E i \in 1..Len(SEED) : HGetAllReturns(i)
  \/ \E i \in 1..Len(SEED), e \in StoreErrors : HGetAllFails(i, e)
  \/ Assemble

SpecSeed == InitSeed /\ [][NextSeed]_vars

\* Stores for the numeric fields: HashOrchard and copies of it without a
\* power, with a price that is a word, and with an empty power.
HashNoPower == [f \in DOMAIN HashOrchard \ {"powerKW"} |-> HashOrchard[f]]

HashTextPrice == [HashOrchard EXCEPT !["pricePerKWh"] = "free"]

HashEmptyPower == [HashOrchard EXCEPT !["powerKW"] = ""]

NumberCatalog == {HashOrchard, HashNoPower, HashTextPrice, HashEmptyPower}

InitNumbers ==
  /\ seedRun = SeedOff
  /\ \E n \in 0..MaxHits :
       /\ geoIndex = [i \in 1..n |-> GeoMember(i)]
       /\ \E present \in SUBSET (1..n) :
            hashStore \in [{Key(IdTable[i]) : i \in present} -> NumberCatalog]
  /\ InitCall
  /\ InitComponent

\* Calls with a minimum power and a maximum price that are absent, numbers,
\* or NaN; requests whose minPower or maxPrice parameter is a word.
NumberInputs ==
  [lat : {Origin.lat},
   lng : {Origin.lng},
   radiusKm : {None},
   limit : {None},
   minPower : {None, Some(Num(100, 0)), Some(NaN)},
   maxPrice : {None, Some(Num(0, 500000000)), Some(NaN)},
   q : {None},
   sortBy : {None}]

NumberRequests ==
  {[NoParams EXCEPT !.minPower = Some("fast")],
   [NoParams EXCEPT !.maxPrice = Some("free")]}

NextNumbers ==
  \/ \E o \in NumberInputs : SearchChargers(o)
  \/ \E p \in NumberRequests : Get(p)
  \/ \E e \in StoreErrors : GeoSearchFails(e)
  \/ \E withDist \in BOOLEAN, withCoord \in BOOLEAN :
       GeoSearchReturns(withDist, withCoord)
  \/ \E i \in 1..MaxHits : HGetAllReturns(i)
  \/ \E i \in 1..MaxHits, e \in StoreErrors : HGetAllFails(i, e)
  \/ Assemble

SpecNumbers == InitNumbers /\ [][NextNumbers]_vars

----------------------------------------------------------------------------
\* The server-backed page (EVChargerFinder of src/unnamed/part_000).

MaxTicks == 4

MaxChanges == 2

MaxRequests == 2

Debounce == 250

\* The step of the model's clock.
Quantum == Debounce \div 2

\* String(x) of a number.
NumString(x) == IF IsNaN(x) THEN "NaN" ELSE NumberToString(x)

\* JSON.stringify of a location, as the tokens of its text; NaN is written null.
NumToJson(x) == IF IsNaN(x) THEN "null" ELSE NumberToString(x)

LocToJson(loc) ==
  << "{\"lat\":", NumToJson(loc.lat), ",\"lng\":", NumToJson(loc.lng), "}" >>

\* JSON.parse of a stored text: the location it spells, or nothing where it
\* throws.
JsonToLoc(raw) ==
  IF /\ Len(raw) = 5
     /\ raw[1] = "{\"lat\":"
     /\ raw[3] = ",\"lng\":"
     /\ raw[5] = "}"
     /\ raw[2] \in DOMAIN NumberTable \ {""}
     /\ raw[4] \in DOMAIN NumberTable \ {""}
  THEN Some([lat |-> NumberTable[raw[2]], lng |-> NumberTable[raw[4]]])
  ELSE None

\* The initial value of useLocalStorage("evcf_userloc", DefaultLoc).
InitialLoc(st) ==
  IF st = None THEN DefaultLoc
  ELSE IF Val(st) = << >> THEN DefaultLoc
  ELSE IF JsonToLoc(Val(st)) = None THEN DefaultLoc
  ELSE Val(JsonToLoc(Val(st)))

\* The values the search effect depends on.
Values ==
  [q |-> query, minPower |-> minPower, maxPrice |-> maxPrice,
   onlyAvailable |-> onlyAvailable, sortBy |-> sortBy, userLoc |-> userLoc]

\* The URLSearchParams the timeout's callback builds from the values it closed
\* over.
ParamsOf(v) ==
  [lat |-> Some(NumString(v.userLoc.lat)),
   lng |-> Some(NumString(v.userLoc.lng)),
   radiusKm |-> Some("30"),
   q |-> Some(v.q),
   minPower |-> Some(NumString(v.minPower)),
   maxPrice |-> Some(NumString(v.maxPrice)),
   onlyAvailable |-> Some(IF v.onlyAvailable THEN "true" ELSE "false"),
   sortBy |-> Some(v.sortBy),
   limit |-> Some("200")]

\* The store behind the page's server: two chargers near Origin.
PageIndex == [i \in 1..2 |-> GeoMember(i)]

PageStore == (Key("sg-001") :> HashOrchard) @@ (Key("sg-002") :> HashSuntec)

\* The items of the reply to GET /api/chargers/search with parameters p.
ServerItems(p) ==
  LET o == ApplyDefaults(GetOpts(p))
      index == IF o.lat = Origin.lat /\ o.lng = Origin.lng
               THEN PageIndex ELSE << >>
      g == GeoSearchWith(index, o.radiusKm, o.limit, TRUE, TRUE)
      ids == [i \in 1..Len(g) |-> g[i].member]
      hs == [i \in 1..Len(g) |-> HGetAll(PageStore, Key(ids[i]))]
  IN SortItems(FilterItems(MergeItems(ids, hs, g), o), o.sortBy)

Timeout(v) == [due |-> now + Debounce, values |-> v]

\* A run of the search effect that leaves the previous timeout pending.
ScheduleWithoutCleanup(v) ==
  /\ timers' = timers \cup {Timeout(v)}
  /\ t' = Some(Timeout(v))
  /\ changedAt' = now

\* A run of the search effect after a render with values v: the cleanup of
\* the previous run clears its timeout, then a new one is set.
Schedule(v) ==
  /\ timers' = (IF t = None THEN timers ELSE timers \ {Val(t)}) \cup {Timeout(v)}
  /\ t' = Some(Timeout(v))
  /\ changedAt' = now

\* A render in which the dependencies of the search effect became v.
Change(v) ==
  /\ query' = v.q
  /\ minPower' = v.minPower
  /\ maxPrice' = v.maxPrice
  /\ onlyAvailable' = v.onlyAvailable
  /\ sortBy' = v.sortBy
  /\ userLoc' = v.userLoc
  /\ Schedule(v)

\* A change made by the user through one of the page's controls.
UserChange(v) ==
  /\ mounted
  /\ v # Values
  /\ changes < MaxChanges
  /\ changes' = changes + 1
  /\ Change(v)
  /\ UNCHANGED << serverVars, chargers, loading, center, requests, now, locate,
                  toasts, search, mounted, busyTick >>

SetQuery(x) == UserChange([Values EXCEPT !.q = x]) /\ UNCHANGED storage

SetMinPower(x) == UserChange([Values EXCEPT !.minPower = x]) /\ UNCHANGED storage

SetMaxPrice(x) == UserChange([Values EXCEPT !.maxPrice = x]) /\ UNCHANGED storage

SetOnlyAvailable(x) ==
  UserChange([Values EXCEPT !.onlyAvailable = x]) /\ UNCHANGED storage

SetSortBy(x) == UserChange([Values EXCEPT !.sortBy = x]) /\ UNCHANGED storage

\* The latitude box: setUserLoc with a new latitude, persisted by
\* useLocalStorage.
SetUserLat(x) ==
  /\ UserChange([Values EXCEPT !.userLoc = [userLoc EXCEPT !.lat = x]])
  /\ storage' = Some(LocToJson([userLoc EXCEPT !.lat = x]))

\* Number(sp.get(name)): a parameter that is absent reads as null, and
\* Number(null) is 0.
NumberOfGet(o) == IF o = None THEN Num(0, 0) ELSE ToNumber(o)

\* Number(sp.get(name) || default)
NumberOrDefault(o, default) ==
  IF o = None THEN default
  ELSE IF Val(o) = "" THEN default
  ELSE ToNumber(o)

\* The mount effect: the filters and the location are read from the query
\* string; the search effect and the storage effect run again after it.
MountEffect ==
  /\ ~mounted
  /\ LET lat == NumberOfGet(search.lat)
         lng == NumberOfGet(search.lng)
         moved == ~IsNaN(lat) /\ ~IsNaN(lng)
         loc == IF moved THEN [lat |-> lat, lng |-> lng] ELSE userLoc
     IN /\ Change([q |-> IF search.q = None THEN << >> ELSE Val(search.q),
                   minPower |-> NumberOrDefault(search.minPower, DefaultUiMinPower),
                   maxPrice |-> NumberOrDefault(search.maxPrice, DefaultUiMaxPrice),
                   onlyAvailable |-> (search.onlyAvailable = Some("true")),
                   sortBy |-> IF search.sortBy = None THEN "distance"
                              ELSE IF Val(search.sortBy) = "" THEN "distance"
                              ELSE Val(search.sortBy),
                   userLoc |-> loc])
        /\ center' = (IF moved THEN loc ELSE center)
        /\ storage' = Some(LocToJson(loc))
  /\ mounted' = TRUE
  /\ UNCHANGED << serverVars, chargers, loading, requests, now, changes, locate,
                  toasts, search, busyTick >>

\* Time passes (the effects of the first render run before any does).
Tick ==
  /\ mounted
  /\ now < MaxTicks * Quantum
  /\ now' = now + Quantum
  /\ UNCHANGED << serverVars, chargers, loading, query, minPower, maxPrice,
                  onlyAvailable, sortBy, userLoc, center, timers, t, requests,
                  changedAt, changes, locate, toasts, storage, search, mounted,
                  busyTick >>

\* A timeout of the search effect fires: loading is set and the request is
\* sent with the values its callback closed over.
TimerFires(tm) ==
  /\ tm \in timers
  /\ now >= tm.due
  /\ Len(requests) < MaxRequests
  /\ timers' = timers \ {tm}
  /\ loading' = TRUE
  /\ requests' = Append(requests, [params |-> ParamsOf(tm.values),
                                   stage |-> "fetch", at |-> now])
  /\ UNCHANGED << serverVars, chargers, query, minPower, maxPrice,
                  onlyAvailable, sortBy, userLoc, center, t, now, changedAt,
                  changes, locate, toasts, storage, search, mounted, busyTick >>

RequestVarsOnly ==
  UNCHANGED << serverVars, query, minPower, maxPrice, onlyAvailable, sortBy,
               userLoc, center, timers, t, now, changedAt, changes, locate,
               toasts, storage, search, mounted, busyTick >>

\* fetch resolves with the response.
FetchResolves(i) ==
  /\ i \in 1..Len(requests)
  /\ requests[i].stage = "fetch"
  /\ requests' = [requests EXCEPT ![i].stage = "json"]
  /\ UNCHANGED << chargers, loading >>
  /\ RequestVarsOnly

\* fetch rejects: the callback ends there, in an unhandled rejection.
FetchRejects(i) ==
  /\ i \in 1..Len(requests)
  /\ requests[i].stage = "fetch"
  /\ requests' = [requests EXCEPT ![i].stage = "failed"]
  /\ UNCHANGED << chargers, loading >>
  /\ RequestVarsOnly

\* res.json() resolves: the items are shown and loading is cleared.
JsonResolves(i) ==
  /\ i \in 1..Len(requests)
  /\ requests[i].stage = "json"
  /\ requests' = [requests EXCEPT ![i].stage = "done"]
  /\ chargers' = ServerItems(requests[i].params)
  /\ loading' = FALSE
  /\ RequestVarsOnly

\* res.json() rejects (the body of an error response is not JSON).
JsonRejects(i) ==
  /\ i \in 1..Len(requests)
  /\ requests[i].stage = "json"
  /\ requests' = [requests EXCEPT ![i].stage = "failed"]
  /\ UNCHANGED << chargers, loading >>
  /\ RequestVarsOnly

\* The page after its first render: the location comes from localStorage, the
\* search effect has set its first timeout, the mount effect is still to run.
InitPage(st, sp) ==
  /\ chargers = << >>
  /\ loading = FALSE
  /\ query = << >>
  /\ minPower = DefaultUiMinPower
  /\ maxPrice = DefaultUiMaxPrice
  /\ onlyAvailable = FALSE
  /\ sortBy = "distance"
  /\ userLoc = InitialLoc(st)
  /\ center = InitialLoc(st)
  /\ LET first == [due |-> Debounce,
                   values |-> [q |-> << >>, minPower |-> DefaultUiMinPower,
                               maxPrice |-> DefaultUiMaxPrice,
                               onlyAvailable |-> FALSE, sortBy |-> "distance",
                               userLoc |-> InitialLoc(st)]]
     IN timers = {first} /\ t = Some(first)
  /\ requests = << >>
  /\ now = 0
  /\ changedAt = 0
  /\ changes = 0
  /\ locate = LocateIdle
  /\ toasts = << >>
  /\ storage = st
  /\ search = sp
  /\ mounted = FALSE
  /\ busyTick = 0

\* The server side, at rest.
InitServerIdle ==
  /\ geoIndex = << >>
  /\ hashStore = << >>
  /\ seedRun = SeedOff
  /\ InitCall

\* The query strings of the search page: none, and a shared link.
SharedLink ==
  [q |-> Some(<< >>), minPower |-> Some("22"), maxPrice |-> Some("0.65"),
   onlyAvailable |-> Some("false"), sortBy |-> Some("distance"),
   lat |-> Some("1.3521"), lng |-> Some("103.8198")]

InitSearchPage ==
  /\ InitServerIdle
  /\ \E sp \in {NoSearch, SharedLink} : InitPage(None, sp)

NextSearchPage ==
  \/ MountEffect
  \/ \E x \in {<< >>, << "o", "r" >>} : SetQuery(x)
  \/ \E x \in {Num(22, 0), Num(100, 0)} : SetMinPower(x)
  \/ \E x \in {Num(0, 650000000), Num(0, 500000000)} : SetMaxPrice(x)
  \/ \E x \in BOOLEAN : SetOnlyAvailable(x)
  \/ \E x \in {"distance", "power"} : SetSortBy(x)
  \/ \E x \in {Num(1, 352100000), Num(0, 0)} : SetUserLat(x)
  \/ Tick
  \/ \E tm \in timers : TimerFires(tm)
  \/ \E i \in 1..MaxRequests : FetchResolves(i)
  \/ \E i \in 1..MaxRequests : FetchRejects(i)
  \/ \E i \in 1..MaxRequests : JsonResolves(i)
  \/ \E i \in 1..MaxRequests : JsonRejects(i)

SpecSearchPage == InitSearchPage /\ [][NextSearchPage]_vars

----------------------------------------------------------------------------
\* handleLocate of the server-backed page.

MaxLocates == 2

MaxAttempts == 3

Backoff == 1500

PermissionDenied == 1

ErrorCodes == {1, 2, 3}

\* The positions the browser reports.
Fixes ==
  {[lat |-> Num(1, 304000000), lng |-> Num(103, 831800000)],
   [lat |-> Num(1, 293100000), lng |-> Num(103, 857200000)]}

ToastSuccess == [kind |-> "success", text |-> "Location updated"]

ToastUnsupported ==
  [kind |-> "error", text |-> "Geolocation not supported in this browser"]

ToastDenied ==
  [kind |-> "error",
   text |-> "Location permission denied. Enable it in browser/site settings."]

ToastGaveUp ==
  [kind |-> "error",
   text |-> "Couldn't get your location. Enter coordinates or try again."]

LocateFrame ==
  UNCHANGED << serverVars, chargers, loading, query, minPower, maxPrice,
               onlyAvailable, sortBy, timers, t, requests, now, changedAt,
               changes, search, mounted, busyTick >>

\* The button is pressed: without navigator.geolocation an error toast ends
\* the invocation, otherwise request() makes the first attempt.
HandleLocate(supported) ==
  /\ mounted
  /\ locate.pc \in {"idle", "ended"}
  /\ locate.run < MaxLocates
  /\ locate' = [run |-> locate.run + 1,
                pc |-> IF supported THEN "asking" ELSE "ended",
                attempts |-> IF supported THEN 1 ELSE 0,
                waited |-> 0,
                code |-> 0,
                before |-> [userLoc |-> userLoc, center |-> center]]
  /\ toasts' = IF supported THEN toasts ELSE Append(toasts, ToastUnsupported)
  /\ UNCHANGED << userLoc, center, storage >>
  /\ LocateFrame

\* The success callback: the fix becomes the location and the centre; the
\* location is persisted and the search effect runs again.
PositionSuccess(c) ==
  /\ locate.pc = "asking"
  /\ locate' = [locate EXCEPT !.pc = "ended"]
  /\ userLoc' = c
  /\ center' = c
  /\ storage' = Some(LocToJson(c))
  /\ toasts' = Append(toasts, ToastSuccess)
  /\ Schedule([Values EXCEPT !.userLoc = c])
  /\ UNCHANGED << serverVars, chargers, loading, query, minPower, maxPrice,
                  onlyAvailable, sortBy, requests, now, changes, search,
                  mounted, busyTick >>

\* The error callback retrying whatever the code and the attempts.
PositionErrorAlwaysRetries(code) ==
  /\ locate.pc = "asking"
  /\ locate' = [locate EXCEPT !.pc = "waiting", !.waited = 0, !.code = code]
  /\ UNCHANGED << userLoc, center, storage, toasts >>
  /\ LocateFrame

\* The error callback: a denied permission ends the invocation; another error
\* schedules request() again while attempts < 3, and ends it otherwise.
PositionError(code) ==
  /\ locate.pc = "asking"
  /\ IF code = PermissionDenied
     THEN /\ locate' = [locate EXCEPT !.pc = "ended", !.code = code]
          /\ toasts' = Append(toasts, ToastDenied)
     ELSE IF locate.attempts < MaxAttempts
     THEN /\ locate' = [locate EXCEPT !.pc = "waiting", !.waited = 0,
                                      !.code = code]
          /\ toasts' = toasts
     ELSE /\ locate' = [locate EXCEPT !.pc = "ended", !.code = code]
          /\ toasts' = Append(toasts, ToastGaveUp)
  /\ UNCHANGED << userLoc, center, storage >>
  /\ LocateFrame

\* The retry timeout runs.
RetryWait ==
  /\ locate.pc = "waiting"
  /\ locate.waited < locate.attempts * Backoff
  /\ locate' = [locate EXCEPT !.waited = @ + Backoff]
  /\ UNCHANGED << userLoc, center, storage, toasts >>
  /\ LocateFrame

\* The retry timeout fires: request() makes the next attempt.
RetryFires ==
  /\ locate.pc = "waiting"
  /\ locate.waited >= locate.attempts * Backoff
  /\ locate' = [locate EXCEPT !.pc = "asking", !.attempts = @ + 1]
  /\ UNCHANGED << userLoc, center, storage, toasts >>
  /\ LocateFrame

\* What the browser stores for the location from an earlier visit.
StoredOrchard ==
  Some(LocToJson([lat |-> Num(1, 304000000), lng |-> Num(103, 831800000)]))

InitLocate ==
  /\ InitServerIdle
  /\ \E st \in {None, StoredOrchard}, sp \in {NoSearch, SharedLink} :
       InitPage(st, sp)

Respond ==
  \/ \E c \in Fixes : PositionSuccess(c)
  \/ \E code \in ErrorCodes : PositionError(code)

NextLocate ==
  \/ MountEffect
  \/ \E supported \in BOOLEAN : HandleLocate(supported)
  \/ \E c \in Fixes : PositionSuccess(c)
  \/ \E code \in ErrorCodes : PositionError(code)
  \/ RetryWait
  \/ RetryFires

\* The browser answers every getCurrentPosition call (the options carry a
\* timeout) and every timeout set with setTimeout fires.
SpecLocate ==
  /\ InitLocate
  /\ [][NextLocate]_vars
  /\ WF_vars(Respond)
  /\ WF_vars(RetryWait)
  /\ WF_vars(RetryFires)

----------------------------------------------------------------------------
\* The mount effect, over the query strings and the stored locations a visit
\* can start with.

MountStorages == {None, StoredOrchard, Some(<< "{\"lat\":" >>)}

MountSearches ==
  [q : {None, Some(<< "o", "r" >>)},
   minPower : {None, Some("100")},
   maxPrice : {None, Some("0.5")},
   onlyAvailable : {None, Some("true")},
   sortBy : {None, Some("power")},
   lat : {None, Some("1.2931"), Some("north"), Some("")},
   lng : {None, Some("103.8572"), Some("east")}]

InitMount ==
  /\ InitServerIdle
  /\ \E st \in MountStorages, sp \in MountSearches : InitPage(st, sp)

NextMount == MountEffect

SpecMount == InitMount /\ [][NextMount]_vars

----------------------------------------------------------------------------
\* The local page (EVChargerFinder of src/unnamed/part_001): the simulated
\* status updates.

MaxBusyTicks == 3

\* Date.now() when the module is loaded, in milliseconds on the model's clock.
PageLoad == 3000000

Interval == 15000

\* How late the interval's callback may run, in milliseconds.
Lateness == {0, 40}

DEFAULT_CHARGERS ==
  <<
   [id |-> "sg-001", powerKW |-> 60, status |-> "available",
    updatedAt |-> PageLoad - 1000 * 60 * 5],
   [id |-> "sg-002", powerKW |-> 150, status |-> "occupied",
    updatedAt |-> PageLoad - 1000 * 60 * 2],
   [id |-> "sg-003", powerKW |-> 250, status |-> "available",
    updatedAt |-> PageLoad - 1000 * 60 * 12],
   [id |-> "sg-004", powerKW |-> 22, status |-> "available",
    updatedAt |-> PageLoad - 1000 * 60 * 24],
   [id |-> "sg-005", powerKW |-> 120, status |-> "available",
    updatedAt |-> PageLoad - 1000 * 60 * 7],
   [id |-> "sg-006", powerKW |-> 43, status |-> "occupied",
    updatedAt |-> PageLoad - 1000 * 60 * 9],
   [id |-> "sg-007", powerKW |-> 50, status |-> "available",
    updatedAt |-> PageLoad - 1000 * 60 * 30],
   [id |-> "sg-008", powerKW |-> 60, status |-> "available",
    updatedAt |-> PageLoad - 1000 * 60 * 45],
   [id |-> "sg-009", powerKW |-> 90, status |-> "available",
    updatedAt |-> PageLoad - 1000 * 60 * 14],
   [id |-> "sg-010", powerKW |-> 22, status |-> "available",
    updatedAt |-> PageLoad - 1000 * 60 * 18]
  >>

\* The updater of setChargers toggling every charger.
StatusTickAll(prev, i, time) ==
  [j \in 1..Len(prev) |->
     [prev[j] EXCEPT !.status = IF @ = "available" THEN "occupied"
                                ELSE "available",
                     !.updatedAt = time]]

\* The updater of setChargers: a copy of the list in which charger i has its
\* status toggled and its updatedAt set to Date.now().
StatusTick(prev, i, time) ==
  [prev EXCEPT ![i] = [prev[i] EXCEPT !.status = IF @ = "available"
                                                 THEN "occupied"
                                                 ELSE "available",
                                      !.updatedAt = time]]

\* The interval fires: busyTick is incremented, and the effect that depends
\* on it updates one charger, chosen by Math.random(); useLocalStorage
\* stores the new list.
IntervalFires(i, late) ==
  /\ busyTick < MaxBusyTicks
  /\ i \in 1..Len(chargers)
  /\ busyTick' = busyTick + 1
  /\ now' = now + Interval + late
  /\ chargers' = StatusTick(chargers, i, now + Interval + late)
  /\ storage' = Some(StatusTick(chargers, i, now + Interval + late))
  /\ UNCHANGED << serverVars, loading, query, minPower, maxPrice,
                  onlyAvailable, sortBy, userLoc, center, timers, t, requests,
                  changedAt, changes, locate, toasts, search, mounted >>

InitLocal ==
  /\ InitServerIdle
  /\ chargers = DEFAULT_CHARGERS
  /\ loading = FALSE
  /\ query = << >>
  /\ minPower = DefaultUiMinPower
  /\ maxPrice = DefaultUiMaxPrice
  /\ onlyAvailable = FALSE
  /\ sortBy = "distance"
  /\ userLoc = DefaultLoc
  /\ center = DefaultLoc
  /\ timers = {}
  /\ t = None
  /\ requests = << >>
  /\ now = PageLoad
  /\ changedAt = 0
  /\ changes = 0
  /\ locate = LocateIdle
  /\ toasts = << >>
  /\ storage = None
  /\ search = NoSearch
  /\ mounted = TRUE
  /\ busyTick = 0

NextLocal == \E i \in 1..Len(chargers), late \in Lateness : IntervalFires(i, late)

SpecLocal == InitLocal /\ [][NextLocal]_vars

----------------------------------------------------------------------------
\* Properties of the search.

\* The position of a returned record's id in the reply of the radius query.
PosOf(id) == CHOOSE i \in 1..Len(geo) : geo[i].member = id

ReturnedIds == {outcome.items[k].id : k \in 1..Len(outcome.items)}

DefaultFilters ==
  /\ opts.minPower = DefaultMinPower
  /\ opts.maxPrice = DefaultMaxPrice
  /\ opts.q = DefaultQ

NumLt(a, b) == NumLe(a, b) /\ a # b

\* C1: every record searchChargers returns has powerKW >= minPower and
\* pricePerKWh <= maxPrice + 1e-9, whatever the query and the store.
C1_ReturnedWithinFilters ==
  pc = "done" =>
    \A k \in 1..Len(outcome.items) :
      /\ NumGe(outcome.items[k].powerKW, opts.minPower)
      /\ NumLe(outcome.items[k].pricePerKWh, NumPlus(opts.maxPrice, Num(0, 1)))

\* A search with maxPrice 0.5 that returned a record priced 0.500000001 (inside
\* the tolerance) and dropped another hit.
C1_Witness ==
  /\ pc = "done"
  /\ opts.maxPrice = Num(0, 500000000)
  /\ Len(outcome.items) < Len(items)
  /\ \E k \in 1..Len(outcome.items) :
       outcome.items[k].pricePerKWh = Num(0, 500000001)

\* C2: a hit whose attribute hash is missing still appears in the list a
\* search with the default filters returns.
C2_OrphanHitReturned ==
  (pc = "done" /\ DefaultFilters) =>
    \A i \in 1..Len(geo) :
      Key(geo[i].member) \notin DOMAIN hashStore => geo[i].member \in ReturnedIds

\* C3: for sortBy power, price or updated the returned list is ordered by that
\* key (power and updated descending, price ascending) and records with equal
\* keys keep the order of the radius query's reply.
SortKey(c, key) ==
  CASE key = "power"   -> c.powerKW
    [] key = "price"   -> c.pricePerKWh
    [] key = "updated" -> c.updatedAt

InOrder(a, b, key) ==
  LET ka == SortKey(a, key)
      kb == SortKey(b, key)
  IN /\ IF key = "price" THEN ~NumLt(kb, ka) ELSE ~NumLt(ka, kb)
     /\ (~ka.nan /\ ka = kb) => PosOf(a.id) < PosOf(b.id)

SortedBy(list, key) ==
  \A i \in 1..Len(list), j \in 1..Len(list) :
    i < j => InOrder(list[i], list[j], key)

C3_SortedAndStable ==
  (pc = "done" /\ opts.sortBy \in {"power", "price", "updated"}) =>
    SortedBy(outcome.items, opts.sortBy)

\* The part of C3 that concerns power and price only.
C3_PowerPriceSortedAndStable ==
  (pc = "done" /\ opts.sortBy \in {"power", "price"}) =>
    SortedBy(outcome.items, opts.sortBy)

\* C4: when the radius query is rejected, searchChargers throws that same
\* error and no attribute lookup is sent.
C4_GeoFailurePropagates ==
  (IsSome(thrown) /\ Val(thrown).call = "GEOSEARCH") =>
    /\ pc = "failed"
    /\ outcome = Threw(Val(thrown).error)
    /\ \A k \in 1..Len(storeCalls) : storeCalls[k][1] # "HGETALL"

\* The radius query was rejected on an index that has members.
C4_Witness ==
  /\ pc = "failed"
  /\ IsSome(thrown)
  /\ Val(thrown).call = "GEOSEARCH"
  /\ Len(geoIndex) >= 2

\* C5: when one attribute lookup is rejected, searchChargers still returns a
\* result instead of failing.
C5_LookupFailureRecovered ==
  (IsSome(thrown) /\ Val(thrown).call = "HGETALL") => outcome.kind # "error"

\* C6: an amenities field that is not valid JSON never aborts the request:
\* with no store call rejected, the call returns a list.
C6_BadAmenitiesTolerated ==
  (pc \in {"done", "failed"} /\ thrown = None) => outcome.kind = "ok"

\* C7: the distanceKm of each hit is the distance the index supplied, and a
\* number (recomputed from the coordinates) when the index supplied none.
C7_DistanceAlwaysKnown ==
  pc = "done" =>
    \A i \in 1..Len(items) :
      IF IsSome(geo[i].distance)
      THEN items[i].distanceKm = ToNumber(geo[i].distance)
      ELSE ~IsNaN(items[i].distanceKm)

C9_DistanceOrderKept ==
  (pc = "done" /\ opts.sortBy \notin {"power", "price", "updated"}) =>
    /\ outcome.items = SelectSeq(items, LAMBDA c : Keep(c, opts))
    /\ \A i \in 1..Len(outcome.items), j \in 1..Len(outcome.items) :
         i < j => PosOf(outcome.items[i].id) < PosOf(outcome.items[j].id)

\* A search sorted by an unknown key that dropped a hit and returned two
\* records, the nearer one with the lower power.
C9_Witness ==
  /\ pc = "done"
  /\ opts.sortBy = "name"
  /\ Len(outcome.items) = 2
  /\ Len(items) = 3
  /\ NumLt(outcome.items[1].powerKW, outcome.items[2].powerKW)

\* C10: the merge yields one record per hit, in the reply's order: record i
\* has the id of hit i and is built from the hash stored under that id.
C10_MergeByIndex ==
  pc = "done" =>
    /\ Len(items) = Len(geo)
    /\ \A i \in 1..Len(geo) :
         /\ items[i].id = geo[i].member
         /\ items[i] = MergeItem(geo[i].member,
                                 HGetAll(hashStore, Key(geo[i].member)),
                                 geo[i])

\* A merge of hits with different hashes whose lookups settled out of order.
C10_Witness ==
  /\ pc = "done"
  /\ overtook
  /\ Len(items) >= 2
  /\ HGetAll(hashStore, Key(geo[1].member)) # HGetAll(hashStore, Key(geo[2].member))

\* The hash stored under the id of hit i.
StoredHash(i) == HGetAll(hashStore, Key(geo[i].member))

HashCoords(h) ==
  Some([lat |-> ToNumber(Field(h, "lat")), lng |-> ToNumber(Field(h, "lng"))])

EchoCoords(g) ==
  IF IsSome(g.coordinates)
  THEN Some([lat |-> Val(g.coordinates).latitude,
             lng |-> Val(g.coordinates).longitude])
  ELSE None

BothReturned ==
  IF previous = None THEN FALSE
  ELSE pc = "done" /\ Val(previous).outcome.kind = "ok"

C12_SameListAgain ==
  BothReturned => outcome.items = Val(previous).outcome.items

\* Two runs returned at least two records, the lookups of exactly one of
\* them completing out of index order.
C12_Witness ==
  /\ BothReturned
  /\ Len(outcome.items) >= 2
  /\ overtook # Val(previous).overtook
  /\ outcome.items = Val(previous).outcome.items

\* C13: no step of searchChargers, called directly or by the GET handler,
\* changes the geo index or any charger hash, whether the call returns or
\* throws; the only commands it sends are GEOSEARCH and HGETALL.
C13_QueryPathReadOnly ==
  /\ [][geoIndex' = geoIndex /\ hashStore' = hashStore]_vars
  /\ [](\A k \in 1..Len(storeCalls) : storeCalls[k][1] \in {"GEOSEARCH", "HGETALL"})

\* A GET request failed after an earlier run of it had returned, over a store
\* that holds members and hashes.
C13_Witness ==
  /\ caller = "GET"
  /\ pc = "failed"
  /\ IF previous = None THEN FALSE ELSE Val(previous).outcome.kind = "ok"
  /\ Len(geoIndex) >= 2
  /\ DOMAIN hashStore # {}
  /\ Len(storeCalls) >= 3

\* C14: when no store call is rejected and no hit passes the filters (in
\* particular when the radius query returns no hit), searchChargers returns
\* the empty list and does not throw.
NonePasses ==
  \A i \in 1..Len(geo) :
    ~Keep(MergeItem(geo[i].member, StoredHash(i), geo[i]), opts)

C14_EmptyNotFailure ==
  (pc \in {"done", "failed"} /\ thrown = None /\ NonePasses)
    => outcome = Returned(<< >>)

\* C15: with a q that is empty after trimming no hit is excluded by text
\* (every merged record within the power and price limits is returned); with
\* any other q every returned record has the lower-cased trimmed q as a
\* substring of its lower-cased name or address, so a record with neither is
\* left out, and the call still returns.
C15_TextFilter ==
  pc = "done" =>
    LET text == Trim(ToLowerCase(opts.q))
        Has(f) == IF IsSome(f) THEN Includes(ToLowerCase(Val(f)), text) ELSE FALSE
    IN IF text = << >>
       THEN \A i \in 1..Len(items) :
              (/\ NumGe(items[i].powerKW, opts.minPower)
               /\ NumLe(items[i].pricePerKWh, NumPlus(opts.maxPrice, Num(0, 1))))
                => items[i].id \in ReturnedIds
       ELSE \A k \in 1..Len(outcome.items) :
              Has(outcome.items[k].name) \/ Has(outcome.items[k].address)

\* A search for " OR" returned a record whose address, not its name, contains
\* "or" and left out a hit that has neither a name nor an address.
C15_Witness ==
  /\ pc = "done"
  /\ opts.q = << " ", "O", "R" >>
  /\ \E k \in 1..Len(outcome.items) :
       /\ outcome.items[k].name = Some(<< "S", "t" >>)
       /\ outcome.items[k].address = Some(<< "T", "o", "r" >>)
  /\ \E i \in 1..Len(items) :
       /\ items[i].name = None
       /\ items[i].address = None
       /\ items[i].id \notin ReturnedIds

\* C16: the ids searchChargers returns are exactly the ids of the hits whose
\* record satisfies the text, the power and the price predicate, whatever
\* sortBy is; with minPower = 100 over all ten seeded chargers these are the
\* chargers of power 150, 250 and 120.
PassesFilters(c) ==
  LET text == Trim(ToLowerCase(opts.q))
      Has(f) == IF IsSome(f) THEN Includes(ToLowerCase(Val(f)), text) ELSE FALSE
  IN /\ (text = << >> \/ Has(c.name) \/ Has(c.address))
     /\ NumGe(c.powerKW, opts.minPower)
     /\ NumLe(c.pricePerKWh, NumPlus(opts.maxPrice, Num(0, 1)))

AllSeededHit == {geo[i].member : i \in 1..Len(geo)} = {SEED[r].id : r \in 1..Len(SEED)}

C16_ReturnedSetIsFilteredHits ==
  pc = "done" =>
    /\ ReturnedIds = {items[i].id : i \in {j \in 1..Len(items) : PassesFilters(items[j])}}
    /\ Len(outcome.items) = Cardinality(ReturnedIds)
    /\ (AllSeededHit /\ opts.minPower = Num(100, 0) /\ opts.maxPrice = DefaultMaxPrice
          /\ opts.q = DefaultQ)
         => /\ ReturnedIds = {"sg-002", "sg-003", "sg-005"}
            /\ {outcome.items[k].powerKW : k \in 1..Len(outcome.items)}
                 = {Num(150, 0), Num(250, 0), Num(120, 0)}

\* A search with minPower = 100, sorted by price, over the ten seeded
\* chargers returned three of them.
C16_Witness ==
  /\ pc = "done"
  /\ AllSeededHit
  /\ opts.minPower = Num(100, 0)
  /\ opts.sortBy = "price"
  /\ Len(outcome.items) = 3
  /\ Len(items) = Len(SEED)

\* C17: a search with default filters returns, for every charger the seed
\* script has written (hash and index member) that the radius query finds,
\* a record whose name, address, powerKW, pricePerKWh, amenities, updatedAt
\* and coords are the values of its row of SEED; and the radius query finds
\* every charger written so far when the radius is the default, which holds
\* all of them, and the limit is not below their number.
SeededRecord(c) ==
  [name |-> Some(c.name),
   address |-> Some(c.address),
   powerKW |-> c.powerKW,
   pricePerKWh |-> c.pricePerKWh,
   amenities |-> c.amenities,
   updatedAt |-> c.updatedAt,
   coords |-> Some([lat |-> c.coords.lat, lng |-> c.coords.lng])]

ReturnedAsSeeded(id) ==
  \E k \in 1..Len(outcome.items) :
    LET c == outcome.items[k]
    IN /\ c.id = id
       /\ [f \in DOMAIN SeededRecord(SEED[SeedRowOf(id)]) |-> c[f]]
            = SeededRecord(SEED[SeedRowOf(id)])

AllWrittenFound ==
  (/\ pc = "geo"
   /\ pc' = "fetch"
   /\ opts.radiusKm = DefaultRadiusKm
   /\ Len(geoIndex) <= opts.limit.w)
    => {geo'[i].member : i \in 1..Len(geo')}
         = {geoIndex[i].member : i \in 1..Len(geoIndex)}

C17_SeedThenSearchRoundTrip ==
  /\ []((pc = "done" /\ DefaultFilters)
          => \A i \in 1..Len(geo) : ReturnedAsSeeded(geo[i].member))
  /\ [][AllWrittenFound]_vars

\* A search with the default options returned all ten seeded chargers, the
\* first of them with the values of its row.
C17_Witness ==
  /\ pc = "done"
  /\ DefaultFilters
  /\ opts.limit = DefaultLimit
  /\ Len(outcome.items) = Len(SEED)
  /\ ReturnedAsSeeded(SEED[1].id)

\* C18: once the radius query has returned, one HGETALL per hit has been
\* sent, in the order of the hits, before any of them settles; the merge
\* runs only when none is pending and every slot holds a hash; and in every
\* completion order slot i holds the hash stored under the key of hit i.
LookupsSent ==
  SubSeq(storeCalls, 2, Len(storeCalls))
    = [i \in 1..Len(geo) |-> << "HGETALL", Key(geo[i].member) >>]

C18_LookupsIssuedThenAwaited ==
  /\ pc = "fetch" =>
       /\ LookupsSent
       /\ Len(hashes) = Len(geo)
       /\ \A i \in 1..Len(geo) : i \in pending <=> hashes[i] = None
       /\ items = << >>
  /\ pc = "done" =>
       /\ LookupsSent
       /\ pending = {}
       /\ Len(hashes) = Len(geo)
       /\ \A i \in 1..Len(geo) : hashes[i] = Some(StoredHash(i))

\* A search over three hits returned after a later lookup had settled before
\* an earlier one.
C18_Witness ==
  /\ pc = "done"
  /\ overtook
  /\ Len(geo) = 3
  /\ Len(outcome.items) >= 2
  /\ \E i \in 1..Len(geo) : hashes[i] # hashes[1]

\* C19: in every state of the seeding run, stopped or not, every member of
\* chargers:geo has its charger:<id> hash, holding the fields of its row; and
\* no lookup of a search running meanwhile comes back empty.
C19_MemberHasHash ==
  /\ \A i \in 1..Len(geoIndex) :
       /\ Key(geoIndex[i].member) \in DOMAIN hashStore
       /\ hashStore[Key(geoIndex[i].member)]
            = SeedHash(SEED[SeedRowOf(geoIndex[i].member)])
  /\ \A i \in 1..Len(hashes) :
       IsSome(hashes[i]) => Val(hashes[i]) # EmptyHash

\* The script was stopped by a rejected geoAdd, the hash of its row written
\* and the member not added, while a search returned the chargers seeded
\* before.
C19_Witness ==
  /\ seedRun.pc = "failed"
  /\ Len(geoIndex) >= 2
  /\ Cardinality(DOMAIN hashStore) = Len(geoIndex) + 1
  /\ pc = "done"
  /\ Len(outcome.items) >= 2

\* C20: however many times getRedis is called in the server process, by
\* successive calls of searchChargers or by other invocations in between,
\* createClient runs at most once, connect is invoked at most once and every
\* call returns the one handle kept in client; nothing else is carried from
\* one invocation to another: what a call returns is determined by its
\* options and by what the store answered to it.
C20_OneSharedClient ==
  /\ created <= 1
  /\ connects <= 1
  /\ connects = created
  /\ returned = (IF client = None THEN {} ELSE {Val(client)})
  /\ (caller # "none") => client # None
  /\ pc = "done" =>
       outcome.items =
         SortItems(FilterItems([i \in 1..Len(geo) |->
                                  MergeItem(geo[i].member, StoredHash(i), geo[i])],
                               opts),
                   opts.sortBy)

\* A second run of a call returned: at least two calls of getRedis, one
\* client, one handle.
C20_Witness ==
  /\ previous # None
  /\ pc = "done"
  /\ Len(outcome.items) >= 1
  /\ created = 1
  /\ returned = {1}

\* C21: a call sends one radius query first and nothing else until it
\* returns; then one HGETALL per returned id, in the reply's order, and no
\* other command, whether the call returns or a store call is rejected (no
\* command is sent a second time); and the list returned is the merged
\* records filtered and then sorted.
RadiusQueries ==
  {k \in 1..Len(storeCalls) : storeCalls[k][1] = "GEOSEARCH"}

C21_QueryThenLookupsNoRetry ==
  /\ pc = "idle" => storeCalls = << >>
  /\ pc = "geo" => storeCalls = << << "GEOSEARCH", "chargers:geo" >> >>
  /\ pc \in {"fetch", "done", "failed"} =>
       /\ RadiusQueries = {1}
       /\ LookupsSent
  /\ pc = "done" =>
       /\ items = MergeItems([i \in 1..Len(geo) |-> geo[i].member],
                             [i \in 1..Len(geo) |-> Val(hashes[i])], geo)
       /\ outcome.items = SortItems(FilterItems(items, opts), opts.sortBy)

\* A lookup was rejected after the radius query had returned three hits: four
\* commands were sent, none of them twice.
C21_Witness ==
  /\ pc = "failed"
  /\ thrown # None
  /\ Len(geo) = 3
  /\ Len(storeCalls) = 4
  /\ Cardinality({storeCalls[k] : k \in 1..Len(storeCalls)}) = 4

\* C22: an option the caller omits takes its default: radiusKm 30, limit
\* 200, minPower 0, maxPrice 10, q empty, sortBy distance; the GET handler
\* takes the same values, and lat 1.3521 and lng 103.8198, for each absent
\* request parameter, so a request without parameters runs the default
\* query.  Stated of the options a call holds when it has just read them.
DefaultQuery ==
  [lat |-> Num(1, 352100000),
   lng |-> Num(103, 819800000),
   radiusKm |-> Num(30, 0),
   limit |-> Num(200, 0),
   minPower |-> Num(0, 0),
   maxPrice |-> Num(10, 0),
   q |-> << >>,
   sortBy |-> "distance"]

WithDefaults(o) ==
  [f \in DOMAIN DefaultQuery |->
     IF f \in {"lat", "lng"} THEN o[f]
     ELSE IF o[f] = None THEN DefaultQuery[f] ELSE Val(o[f])]

RequestWithDefaults(p) ==
  [f \in DOMAIN DefaultQuery |->
     IF p[f] = None THEN DefaultQuery[f]
     ELSE IF f \in {"q", "sortBy"} THEN Val(p[f]) ELSE ToNumber(p[f])]

C22_OmittedOptionsTakeDefaults ==
  pc = "geo" =>
    /\ caller = "searchChargers" =>
          /\ \E o \in Inputs : opts = WithDefaults(o)
          /\ \A o \in Inputs : ApplyDefaults(o) = WithDefaults(o)
    /\ caller = "GET" =>
          /\ \E p \in Requests : opts = RequestWithDefaults(p)
          /\ \A p \in Requests :
               ApplyDefaults(GetOpts(p)) = RequestWithDefaults(p)

\* A request without parameters ran the default query and returned hits.
C22_Witness ==
  /\ caller = "GET"
  /\ opts = DefaultQuery
  /\ pc = "done"
  /\ Len(outcome.items) >= 2

\* C23: a returned list has at most limit records, all of them among the
\* limit nearest members of the index within the radius (the cut is made by
\* the radius query, before the filter), and in the index's order when
\* sortBy is distance.
NearestWithin ==
  SelectSeq(geoIndex, LAMBDA m : NumLe(ToNumber(Some(m.distance)), opts.radiusKm))

IndexPos(id) == CHOOSE i \in 1..Len(geoIndex) : geoIndex[i].member = id

C23_AtMostLimitNearest ==
  pc = "done" =>
    /\ Len(outcome.items) <= opts.limit.w
    /\ Len(geo) <= opts.limit.w
    /\ \A k \in 1..Len(outcome.items) :
         \E i \in 1..Len(NearestWithin) :
           /\ i <= opts.limit.w
           /\ NearestWithin[i].member = outcome.items[k].id
    /\ opts.sortBy = "distance" =>
         \A k \in 1..(Len(outcome.items) - 1) :
           IndexPos(outcome.items[k].id) < IndexPos(outcome.items[k + 1].id)

\* A search with limit 2 over three members within the radius returned the
\* two nearest.
C23_Witness ==
  /\ pc = "done"
  /\ opts.limit = Num(2, 0)
  /\ Len(NearestWithin) = 3
  /\ Len(outcome.items) = 2
  /\ outcome.items[1].id = geoIndex[1].member
  /\ outcome.items[2].id = geoIndex[2].member

\* C24: no returned record has a NaN powerKW or pricePerKWh; a hit whose
\* stored power or price is absent or is not a numeric string is left out,
\* whatever minPower and maxPrice are; and a NaN minPower or maxPrice gives
\* an empty list.
NotNumeric(o) ==
  IF IsSome(o) THEN Val(o) = "" \/ Val(o) \notin DOMAIN NumberTable ELSE TRUE

NoNaNReturned ==
  \A k \in 1..Len(outcome.items) :
    /\ ~IsNaN(outcome.items[k].powerKW)
    /\ ~IsNaN(outcome.items[k].pricePerKWh)

NaNLimitGivesNothing ==
  (IsNaN(opts.minPower) \/ IsNaN(opts.maxPrice)) => outcome.items = << >>

C24_NoNaNReturned ==
  pc = "done" =>
    /\ NoNaNReturned
    /\ NaNLimitGivesNothing
    /\ \A i \in 1..Len(geo) :
         (\/ NotNumeric(Field(StoredHash(i), "powerKW"))
          \/ NotNumeric(Field(StoredHash(i), "pricePerKWh")))
           => geo[i].member \notin ReturnedIds

\* The same with "not a numeric string" read as "a string Number() turns into
\* NaN": the empty string, which Number() turns into 0, is taken as numeric.
C24_NoNaNReturnedZeroForEmpty ==
  pc = "done" =>
    /\ NoNaNReturned
    /\ NaNLimitGivesNothing
    /\ \A i \in 1..Len(geo) :
         (\/ IsNaN(ToNumber(Field(StoredHash(i), "powerKW")))
          \/ IsNaN(ToNumber(Field(StoredHash(i), "pricePerKWh"))))
           => geo[i].member \notin ReturnedIds

----------------------------------------------------------------------------
\* Properties of the server-backed page.

InFlight == {i \in 1..Len(requests) : requests[i].stage \in {"fetch", "json"}}

AllResponded ==
  /\ Len(requests) > 0
  /\ \A i \in 1..Len(requests) : requests[i].stage = "done"

\* C25: once every search request issued has completed with its response, the
\* list of chargers shown is the response to the request issued last; the
\* response to an earlier request never replaces it.
C25_LatestResponseShown ==
  AllResponded => chargers = ServerItems(requests[Len(requests)].params)

\* C26: loading is false whenever no search request is in flight, and true
\* while the request issued last is in flight, also after a request failed or
\* was overtaken by a newer one.
C26_LoadingTracksRequests ==
  /\ InFlight = {} => loading = FALSE
  /\ Len(requests) \in InFlight => loading = TRUE

\* C27: a request is issued only when Debounce ms have passed since the last
\* change of a dependency, it carries the values current at that moment and
\* leaves no timeout pending; every change replaces the scheduled timeout by
\* one for the new values, so at most one timeout is pending at any time.
C27_Debounced ==
  [][/\ Cardinality(timers') <= 1
     /\ Values' # Values => timers' = {[due |-> now + Debounce, values |-> Values']}
     /\ Len(requests') = Len(requests) + 1 =>
          /\ now - changedAt >= Debounce
          /\ requests'[Len(requests')].params = ParamsOf(Values)
          /\ requests'[Len(requests')].at = now
          /\ timers' = {}]_vars

C27_Witness ==
  /\ changes = 2
  /\ Len(requests) = 1
  /\ requests[1].params = ParamsOf(Values)
  /\ requests[1].params.q = Some(<< "o", "r" >>)
  /\ requests[1].params.minPower = Some("100")
  /\ requests[1].at >= changedAt + Debounce
  /\ timers = {}

\* C28: one handleLocate invocation calls getCurrentPosition at most 3 times;
\* error code 1 ends it without a retry; another error schedules a retry
\* attempts*1500 ms later while attempts < 3 and ends it otherwise; every
\* invocation eventually ends, with exactly one toast: a success with userLoc
\* and center both set to the fix, or an error with userLoc and center as they
\* were when it started.
LocateEnded ==
  /\ Len(toasts) = locate.run
  /\ \/ /\ toasts[Len(toasts)].kind = "success"
        /\ userLoc \in Fixes
        /\ center = userLoc
     \/ /\ toasts[Len(toasts)].kind = "error"
        /\ userLoc = locate.before.userLoc
        /\ center = locate.before.center

LocateStep ==
  /\ (locate.pc = "asking" /\ locate'.pc = "waiting") =>
       (locate'.code \in {2, 3} /\ locate.attempts < 3)
  /\ (locate.pc = "asking" /\ locate'.pc = "ended"
        /\ toasts'[Len(toasts')].kind = "error") =>
       (locate'.code = 1 \/ locate.attempts = 3)
  /\ (locate.pc = "waiting" /\ locate'.pc = "asking") =>
       (locate.waited = locate.attempts * 1500 /\ locate'.attempts = locate.attempts + 1)

C28_LocateEndsWithinThreeCalls ==
  /\ [](locate.attempts <= 3)
  /\ [](locate.pc = "ended" => LocateEnded)
  /\ [](locate.pc \in {"asking", "waiting"} => Len(toasts) = locate.run - 1)
  /\ [][LocateStep]_vars
  /\ (locate.pc \in {"asking", "waiting"}) ~> (locate.pc = "ended")

C28_Witness ==
  /\ locate.run = 2
  /\ locate.pc = "ended"
  /\ locate.attempts = 3
  /\ locate.code = 3
  /\ toasts = << ToastSuccess, ToastGaveUp >>
  /\ userLoc \in Fixes
  /\ center = userLoc

\* C29: after the mount effect, when the query string carries no lat and no
\* lng, the user location is still the persisted or the default location and
\* the map is still centred on it.
C29_LocationKeptWithoutParams ==
  (mounted /\ search.lat = None /\ search.lng = None) =>
    /\ userLoc \in {InitialLoc(st) : st \in MountStorages}
    /\ center = userLoc

----------------------------------------------------------------------------
\* Properties of the local page.

\* C30: each simulated status tick changes exactly one charger: its status
\* toggles between available and occupied and its updatedAt becomes the
\* current time, every other charger, the length and the order of the list
\* stay as they were; so no charger's updatedAt ever decreases.
TickChangesOne(i) ==
  /\ chargers'[i].status # chargers[i].status
  /\ {chargers[i].status, chargers'[i].status} = {"available", "occupied"}
  /\ chargers'[i].updatedAt = now'
  /\ chargers'[i].id = chargers[i].id
  /\ chargers'[i].powerKW = chargers[i].powerKW
  /\ \A j \in 1..Len(chargers) : j # i => chargers'[j] = chargers[j]

C30_TickChangesOneCharger ==
  [][/\ Len(chargers') = Len(chargers)
     /\ \A j \in 1..Len(chargers) :
          /\ chargers'[j].id = chargers[j].id
          /\ chargers'[j].updatedAt >= chargers[j].updatedAt
     /\ busyTick' # busyTick =>
          \E i \in 1..Len(chargers) : TickChangesOne(i)]_vars

C30_Witness ==
  /\ busyTick = 3
  /\ chargers[2].status = "occupied"
  /\ chargers[2].updatedAt > PageLoad + Interval
  /\ chargers[1].status = "occupied"
  /\ chargers[1].updatedAt = PageLoad + Interval
  /\ chargers[3] = DEFAULT_CHARGERS[3]

====
